---- MODULE Spec2Model ----
(***************************************************************************)
(* Model of the interview-analysis backend (ai-mock-interview-backend):    *)
(*   app/ml/feature_extraction.py  ResponseFeatureExtractor                *)
(*   app/ml_service.py             InterviewAnalyzer                       *)
(*   app/main.py                   the interview endpoints and the session *)
(*                                 aggregator calculate_overall_feedback   *)
(*   app/models.py                 the stored rows                         *)
(*                                                                         *)
(* A text is a sequence of tokens; the text it stands for is the tokens    *)
(* joined by single spaces.  A token is a word, the sentence terminator    *)
(* ".", a number ("42") or a run of blanks (" ").  Python numbers (int and *)
(* float alike) are exact rationals <<n, d>> in lowest terms with d > 0.   *)
(***************************************************************************)
EXTENDS Integers, Sequences, FiniteSets, TLC

(***************************************************************************)
(* Rational arithmetic                                                     *)
(***************************************************************************)
RECURSIVE GCD(_, _)
GCD(a, b) == IF b = 0 THEN a ELSE GCD(b, a % b)

Abs(x) == IF x < 0 THEN -x ELSE x

Q(n, d) ==
    LET g == GCD(Abs(n), Abs(d))
        s == IF d < 0 THEN -1 ELSE 1
    IN  <<(s * n) \div g, (s * d) \div g>>

QInt(i) == <<i, 1>>
Zero == QInt(0)
One == QInt(1)
QAdd(x, y) == Q(x[1] * y[2] + y[1] * x[2], x[2] * y[2])
QSub(x, y) == Q(x[1] * y[2] - y[1] * x[2], x[2] * y[2])
QMul(x, y) == Q(x[1] * y[1], x[2] * y[2])
QDiv(x, y) == Q(x[1] * y[2], x[2] * y[1])
QLt(x, y) == x[1] * y[2] < y[1] * x[2]
QLe(x, y) == x[1] * y[2] <= y[1] * x[2]
QGt(x, y) == QLt(y, x)
QGe(x, y) == QLe(y, x)
QMin(x, y) == IF QLe(x, y) THEN x ELSE y
QMax(x, y) == IF QGe(x, y) THEN x ELSE y
\* a decimal literal with two places, e.g. Dec(35) is 0.35
Dec(h) == Q(h, 100)
\* Python bool used as a number
B2Q(b) == IF b THEN One ELSE Zero

RECURSIVE QSumRange(_, _, _)
QSumRange(s, lo, hi) ==
    IF lo > hi THEN Zero
    ELSE IF lo = hi THEN s[lo]
    ELSE LET mid == (lo + hi) \div 2
         IN  QAdd(QSumRange(s, lo, mid), QSumRange(s, mid + 1, hi))

\* sum(s) of a list of numbers
QSum(s) == QSumRange(s, 1, Len(s))

RECURSIVE ISumRange(_, _, _)
ISumRange(s, lo, hi) ==
    IF lo > hi THEN 0
    ELSE IF lo = hi THEN s[lo]
    ELSE LET mid == (lo + hi) \div 2
         IN  ISumRange(s, lo, mid) + ISumRange(s, mid + 1, hi)

\* sum of a sequence of integers
ISum(s) == ISumRange(s, 1, Len(s))

\* x rounded to the nearest multiple of 1/scale, a tie to the even multiple
RoundTo(x, scale) ==
    LET y   == x[1] * scale
        fl  == y \div x[2]
        rem == y - fl * x[2]
        up  == (2 * rem > x[2]) \/ (2 * rem = x[2] /\ fl % 2 = 1)
    IN  Q(IF up THEN fl + 1 ELSE fl, scale)

\* round(x, 2)
Round2(x) == RoundTo(x, 100)

\* round(x, 4)
Round4(x) == RoundTo(x, 10000)

\* np.mean of a non-empty sequence of numbers
Mean(s) == QDiv(QSum(s), QInt(Len(s)))

(***************************************************************************)
(* Texts                                                                   *)
(***************************************************************************)
Blank == " "
Period == "."
NonAlpha == {Period, Blank, "42"}

\* str.isalpha() of a token
IsAlpha(tok) == tok \notin NonAlpha

\* str.lower() of a token
Lower(tok) ==
    CASE tok = "API" -> "api"
      [] tok = "Um" -> "um"
      [] tok = "First" -> "first"
      [] OTHER -> tok

LowerText(text) == [i \in 1..Len(text) |-> Lower(text[i])]

\* not text or not text.strip()
IsBlankText(text) == \A i \in 1..Len(text) : text[i] = Blank

\* word_tokenize(text): the tokens that are not white space
WordTokenize(text) == SelectSeq(text, LAMBDA t : t # Blank)

\* [w for w in words if w.isalpha()]
AlphaWords(text) == SelectSeq(WordTokenize(LowerText(text)), IsAlpha)

SeqToSet(s) == {s[i] : i \in 1..Len(s)}

\* len(sent_tokenize(text)): every terminator closes a sentence, and the
\* tokens after the last terminator form one more
SentenceCount(text) ==
    LET toks    == WordTokenize(text)
        periods == {i \in 1..Len(toks) : toks[i] = Period}
        lastP   == IF periods = {} THEN 0
                   ELSE CHOOSE i \in periods : \A j \in periods : j <= i
    IN  Cardinality(periods) + (IF lastP < Len(toks) THEN 1 ELSE 0)

\* len(text) of the tokens joined by single spaces
CharacterCount(text) ==
    ISum([i \in 1..Len(text) |-> Len(text[i])]) + (IF Len(text) > 0 THEN Len(text) - 1 ELSE 0)

\* the phrase matches the tokens of text at position i, between word boundaries
MatchesAt(text, p, i) ==
    /\ i + Len(p) - 1 <= Len(text)
    /\ \A j \in 1..Len(p) : text[i + j - 1] = p[j]

\* sum over the phrases of lexicon of len(re.findall(r'\b' + phrase + r'\b', text))
CountLexicon(text, lexicon) ==
    LET multi == {p \in lexicon : Len(p) > 1}
    IN  Cardinality({i \in 1..Len(text) : <<text[i]>> \in lexicon})
        + Cardinality({pi \in multi \X (1..Len(text)) : MatchesAt(text, pi[1], pi[2])})

\* a is a proper substring / suffix / prefix of the token b
ProperSubstrings == {<<"first", "firstly">>, <<"like", "likely">>, <<"for", "before">>,
                     <<"example", "examples">>, <<"overall", "overalls">>}
ProperSuffixes == {<<"for", "before">>}
ProperPrefixes == {<<"first", "firstly">>, <<"like", "likely">>,
                   <<"example", "examples">>, <<"overall", "overalls">>}

\* marker in text (Python substring test) for a marker of one or two words
ContainsMarker(text, m) ==
    IF Len(m) = 1
    THEN \E i \in 1..Len(text) :
            text[i] = m[1] \/ <<m[1], text[i]>> \in ProperSubstrings
    ELSE \E i \in 1..(Len(text) - 1) :
            /\ text[i] = m[1] \/ <<m[1], text[i]>> \in ProperSuffixes
            /\ text[i + 1] = m[2] \/ <<m[2], text[i + 1]>> \in ProperPrefixes

(***************************************************************************)
(* ResponseFeatureExtractor.__init__: the lexicons                         *)
(***************************************************************************)
\* the English stop words that occur in the texts of this model
stop_words == {"i", "you", "the", "is", "a", "what", "how", "for", "to", "in",
               "so", "such", "as", "and", "then", "after", "before", "when"}

filler_words ==
    {<<"um">>, <<"uh">>, <<"like">>, <<"you", "know">>, <<"so">>, <<"well">>,
     <<"actually">>, <<"basically">>, <<"literally">>, <<"totally">>,
     <<"obviously">>, <<"i", "mean">>, <<"sort", "of">>, <<"kind", "of">>}

technical_terms_software ==
    {<<"algorithm">>, <<"data", "structure">>, <<"api">>, <<"database">>,
     <<"framework">>, <<"library">>, <<"object-oriented">>, <<"functional">>,
     <<"recursion">>, <<"iteration">>, <<"complexity">>, <<"optimization">>,
     <<"debugging">>, <<"testing">>, <<"deployment">>, <<"version", "control">>,
     <<"git">>, <<"sql">>, <<"nosql">>, <<"rest">>, <<"json">>, <<"xml">>,
     <<"http">>, <<"https">>, <<"javascript">>, <<"python">>, <<"java">>,
     <<"c++">>, <<"react">>, <<"node">>, <<"docker">>, <<"kubernetes">>,
     <<"aws">>, <<"cloud">>, <<"microservices">>, <<"authentication">>,
     <<"authorization">>, <<"encryption">>, <<"security">>, <<"performance">>,
     <<"scalability">>}

technical_terms_behavioral ==
    {<<"leadership">>, <<"teamwork">>, <<"communication">>, <<"collaboration">>,
     <<"problem-solving">>, <<"decision-making">>, <<"conflict", "resolution">>,
     <<"time", "management">>, <<"priority">>, <<"deadline">>,
     <<"responsibility">>, <<"accountability">>, <<"initiative">>,
     <<"motivation">>, <<"adaptability">>, <<"flexibility">>, <<"learning">>,
     <<"growth">>, <<"feedback">>, <<"improvement">>, <<"challenge">>,
     <<"success">>, <<"failure">>, <<"lesson">>, <<"experience">>}

\* a lookup that falls back on the software lexicon
TechnicalTermsMutant(interview_type) ==
    CASE interview_type = "behavioral" -> technical_terms_behavioral
      [] OTHER -> technical_terms_software

\* self.technical_terms.get(interview_type, set())
technical_terms(interview_type) ==
    CASE interview_type = "technical_software" -> technical_terms_software
      [] interview_type = "behavioral" -> technical_terms_behavioral
      [] OTHER -> {}

confidence_positive ==
    {<<"definitely">>, <<"certainly">>, <<"absolutely">>, <<"confident">>,
     <<"sure">>, <<"positive">>, <<"know">>, <<"believe">>, <<"understand">>,
     <<"clear">>, <<"obvious">>, <<"simple">>, <<"straightforward">>}

confidence_negative ==
    {<<"maybe">>, <<"perhaps">>, <<"possibly">>, <<"might">>, <<"could">>,
     <<"unsure">>, <<"uncertain">>, <<"confused">>, <<"difficult">>,
     <<"complicated">>, <<"not", "sure">>, <<"i", "think">>, <<"i", "guess">>,
     <<"probably">>, <<"hopefully">>, <<"i", "believe">>}

structure_words ==
    {<<"first">>, <<"second">>, <<"third">>, <<"finally">>, <<"next">>,
     <<"then">>, <<"after">>, <<"before">>, <<"initially">>,
     <<"subsequently">>, <<"furthermore">>, <<"moreover">>, <<"however">>,
     <<"therefore">>, <<"in", "conclusion">>, <<"to", "summarize">>,
     <<"overall">>, <<"specifically">>, <<"for", "example">>}

introduction_markers == {<<"first">>, <<"initially">>, <<"to", "begin">>}
conclusion_markers == {<<"finally">>, <<"in", "conclusion">>, <<"overall">>}
example_markers == {<<"for", "example">>, <<"such", "as">>, <<"like", "when">>}

(***************************************************************************)
(* ResponseFeatureExtractor: the feature vector                            *)
(***************************************************************************)
\* dict.get(key, default)
Get(d, key, default) == IF key \in DOMAIN d THEN d[key] ELSE default

\* d.update(u): the keys of u replace those of d
Update(d, u) == u @@ d

_extract_basic_stats(text) ==
    LET words == AlphaWords(text)
        word_count == Len(words)
        sentence_count == SentenceCount(text)
    IN  [word_count |-> QInt(word_count),
         sentence_count |-> QInt(sentence_count),
         character_count |-> QInt(CharacterCount(text)),
         avg_word_length |->
            IF word_count > 0
            THEN Q(ISum([i \in 1..word_count |-> Len(words[i])]), word_count)
            ELSE Zero,
         avg_sentence_length |->
            IF sentence_count > 0 THEN Q(word_count, sentence_count) ELSE Zero,
         unique_word_ratio |->
            IF word_count > 0
            THEN Q(Cardinality(SeqToSet(words)), word_count)
            ELSE Zero]

_analyze_filler_words(text) ==
    LET text_lower == LowerText(text)
        filler_count == CountLexicon(text_lower, filler_words)
        word_count == Len(AlphaWords(text))
    IN  [filler_word_count |-> QInt(filler_count),
         filler_word_ratio |->
            IF word_count > 0 THEN Q(filler_count, word_count) ELSE Zero]

_analyze_technical_terms(text, interview_type) ==
    LET text_lower == LowerText(text)
        relevant_terms == technical_terms(interview_type)
        technical_count == CountLexicon(text_lower, relevant_terms)
        word_count == Len(AlphaWords(text))
    IN  [technical_term_count |-> QInt(technical_count),
         technical_term_ratio |->
            IF word_count > 0 THEN Q(technical_count, word_count) ELSE Zero]

_analyze_confidence(text) ==
    LET text_lower == LowerText(text)
        positive_count == CountLexicon(text_lower, confidence_positive)
        negative_count == CountLexicon(text_lower, confidence_negative)
        total_indicators == positive_count + negative_count
    IN  [confidence_indicators_positive |-> QInt(positive_count),
         confidence_indicators_negative |-> QInt(negative_count),
         confidence_score |->
            IF total_indicators > 0 THEN Q(positive_count, total_indicators)
            ELSE Q(1, 2)]

_analyze_response_structure(text) ==
    LET text_lower == LowerText(text)
        structure_count == CountLexicon(text_lower, structure_words)
        sentence_count == SentenceCount(text)
        structure_ratio ==
            IF sentence_count > 0 THEN Q(structure_count, sentence_count) ELSE Zero
        has_introduction == \E m \in introduction_markers : ContainsMarker(text_lower, m)
        has_conclusion == \E m \in conclusion_markers : ContainsMarker(text_lower, m)
        has_examples == \E m \in example_markers : ContainsMarker(text_lower, m)
    IN  [structure_indicators |-> QInt(structure_count),
         structure_ratio |-> structure_ratio,
         has_introduction |-> has_introduction,
         has_conclusion |-> has_conclusion,
         has_examples |-> has_examples,
         has_overall_structure |-> has_introduction /\ has_conclusion,
         structure_score |->
            QDiv(QAdd(QAdd(structure_ratio, B2Q(has_introduction)),
                      QAdd(B2Q(has_conclusion), B2Q(has_examples))),
                 QInt(4))]

\* The sentiment lexicons of TextBlob and VADER are data of those libraries;
\* here a word carries a valence of +1 or -1 or none, and the six scores are
\* the proportions of such words.
positive_valence == {"sure", "confident", "success", "clear", "simple"}
negative_valence == {"difficult", "failure", "confused", "complicated"}

_analyze_sentiment(text) ==
    LET words == AlphaWords(text)
        n == Len(words)
        pos == Cardinality({i \in 1..n : words[i] \in positive_valence})
        neg == Cardinality({i \in 1..n : words[i] \in negative_valence})
        polarity == IF pos + neg > 0 THEN Q(pos - neg, pos + neg) ELSE Zero
    IN  [sentiment_polarity |-> polarity,
         sentiment_subjectivity |-> IF n > 0 THEN Q(pos + neg, n) ELSE Zero,
         sentiment_compound |-> polarity,
         sentiment_positive |-> IF n > 0 THEN Q(pos, n) ELSE Zero,
         sentiment_negative |-> IF n > 0 THEN Q(neg, n) ELSE Zero,
         sentiment_neutral |-> IF n > 0 THEN Q(n - pos - neg, n) ELSE Zero]

\* set of the lower-cased alphabetic tokens that are no stop words
ContentWords(text) ==
    {Lower(w) : w \in {t \in SeqToSet(WordTokenize(text)) :
                          IsAlpha(t) /\ Lower(t) \notin stop_words}}

\* without a question only the relevance score is returned
AnalyzeRelevanceMutant(response_text, question_text) ==
    IF question_text = <<>>
    THEN [relevance_score |-> Q(1, 2)]
    ELSE [relevance_score |-> Zero, keyword_overlap_ratio |-> Zero]

_analyze_relevance(response_text, question_text) ==
    IF question_text = <<>>
    THEN [relevance_score |-> Q(1, 2), keyword_overlap_ratio |-> Zero]
    ELSE LET response_words == ContentWords(response_text)
             question_words == ContentWords(question_text)
             overlap == Cardinality(response_words \cap question_words)
             keyword_overlap_ratio ==
                IF Cardinality(question_words) > 0
                THEN Q(overlap, Cardinality(question_words))
                ELSE Zero
         IN  [relevance_score |-> QMin(QMul(keyword_overlap_ratio, QInt(2)), One),
              keyword_overlap_ratio |-> keyword_overlap_ratio]

_get_empty_features ==
    [word_count |-> Zero,
     sentence_count |-> Zero,
     character_count |-> Zero,
     avg_word_length |-> Zero,
     avg_sentence_length |-> Zero,
     unique_word_ratio |-> Zero,
     filler_word_count |-> Zero,
     filler_word_ratio |-> Zero,
     technical_term_count |-> Zero,
     technical_term_ratio |-> Zero,
     confidence_indicators_positive |-> Zero,
     confidence_indicators_negative |-> Zero,
     confidence_score |-> Zero,
     structure_indicators |-> Zero,
     structure_ratio |-> Zero,
     has_introduction |-> FALSE,
     has_conclusion |-> FALSE,
     has_examples |-> FALSE,
     has_overall_structure |-> FALSE,
     structure_score |-> Zero,
     sentiment_polarity |-> Zero,
     sentiment_subjectivity |-> Zero,
     sentiment_compound |-> Zero,
     sentiment_positive |-> Zero,
     sentiment_negative |-> Zero,
     sentiment_neutral |-> Zero,
     relevance_score |-> Zero,
     keyword_overlap_ratio |-> Zero]

extract_all_features(response_text, question_text, interview_type) ==
    IF IsBlankText(response_text)
    THEN _get_empty_features
    ELSE LET f0 == << >>
             f1 == Update(f0, _extract_basic_stats(response_text))
             f2 == Update(f1, _analyze_filler_words(response_text))
             f3 == Update(f2, _analyze_technical_terms(response_text, interview_type))
             f4 == Update(f3, _analyze_confidence(response_text))
             f5 == Update(f4, _analyze_response_structure(response_text))
             f6 == Update(f5, _analyze_sentiment(response_text))
         IN  Update(f6, _analyze_relevance(response_text, question_text))

(***************************************************************************)
(* InterviewAnalyzer                                                       *)
(***************************************************************************)
\* An attribute that may be None holds a sequence: << >> for None, <<v>> for v.
None == << >>
Some(v) == <<v>>
Val(o) == o[1]

\* a constructor that installs a stock classifier when nothing could be loaded
ConstructMutant(model_file) ==
    IF model_file = None
    THEN [model |-> Some("by_length"), scaler |-> Some("StandardScaler"),
          feature_names |-> Some({"word_count"}),
          feature_extractor |-> "ResponseFeatureExtractor"]
    ELSE [model |-> Val(model_file).model,
          scaler |-> Val(model_file).scaler,
          feature_names |-> Val(model_file).feature_names,
          feature_extractor |-> "ResponseFeatureExtractor"]

\* InterviewAnalyzer.__init__: the four attributes after construction.
\* model_file is None when the file is missing or joblib.load raises, and
\* otherwise the dictionary the file holds.
Construct(model_file) ==
    IF model_file = None
    THEN [model |-> None, scaler |-> None, feature_names |-> None,
          feature_extractor |-> "ResponseFeatureExtractor"]
    ELSE [model |-> Val(model_file).model,
          scaler |-> Val(model_file).scaler,
          feature_names |-> Val(model_file).feature_names,
          feature_extractor |-> "ResponseFeatureExtractor"]

\* a rubric whose top confidence tier starts at the ratio 0.5
GetRuleBasedPredictionMutant(features) ==
    LET word_count == Get(features, "word_count", Zero)
        s1 == IF QGe(word_count, QInt(80)) THEN 20
              ELSE IF QGe(word_count, QInt(50)) THEN 15
              ELSE IF QGe(word_count, QInt(30)) THEN 10
              ELSE IF QGe(word_count, QInt(15)) THEN 5
              ELSE 0
        filler_ratio == Get(features, "filler_word_ratio", Zero)
        s2 == IF QLe(filler_ratio, Dec(2)) THEN 15
              ELSE IF QLe(filler_ratio, Dec(5)) THEN 10
              ELSE IF QLe(filler_ratio, Dec(10)) THEN 5
              ELSE 0
        tech_count == Get(features, "technical_term_count", Zero)
        s3 == IF QGe(tech_count, QInt(5)) THEN 20
              ELSE IF QGe(tech_count, QInt(3)) THEN 15
              ELSE IF QGe(tech_count, QInt(1)) THEN 10
              ELSE 0
        s4 == (IF Get(features, "has_overall_structure", FALSE) THEN 8 ELSE 0)
              + (IF Get(features, "has_examples", FALSE) THEN 7 ELSE 0)
        confidence_score == Get(features, "confidence_score", Zero)
        s5 == IF QGe(confidence_score, Q(1, 2)) THEN 15
              ELSE IF QGe(confidence_score, QInt(0)) THEN 10
              ELSE IF QGe(confidence_score, QInt(-1)) THEN 5
              ELSE 0
        vocab_diversity == Get(features, "vocabulary_diversity", Zero)
        s6 == IF QGe(vocab_diversity, Dec(70)) THEN 15
              ELSE IF QGe(vocab_diversity, Dec(50)) THEN 10
              ELSE IF QGe(vocab_diversity, Dec(30)) THEN 5
              ELSE 0
        score == s1 + s2 + s3 + s4 + s5 + s6
        percentage == QMul(Q(score, 100), QInt(100))
        rating == IF QGe(percentage, QInt(85)) THEN "excellent"
                  ELSE IF QGe(percentage, QInt(70)) THEN "good"
                  ELSE IF QGe(percentage, QInt(50)) THEN "average"
                  ELSE "poor"
    IN  [prediction |-> rating,
         confidence |-> Dec(80),
         score_percentage |-> percentage,
         method |-> "rule_based"]

\* the rule-based prediction: six rubrics, 100 points at most
_get_rule_based_prediction(features) ==
    LET word_count == Get(features, "word_count", Zero)
        s1 == IF QGe(word_count, QInt(80)) THEN 20
              ELSE IF QGe(word_count, QInt(50)) THEN 15
              ELSE IF QGe(word_count, QInt(30)) THEN 10
              ELSE IF QGe(word_count, QInt(15)) THEN 5
              ELSE 0
        filler_ratio == Get(features, "filler_word_ratio", Zero)
        s2 == IF QLe(filler_ratio, Dec(2)) THEN 15
              ELSE IF QLe(filler_ratio, Dec(5)) THEN 10
              ELSE IF QLe(filler_ratio, Dec(10)) THEN 5
              ELSE 0
        tech_count == Get(features, "technical_term_count", Zero)
        s3 == IF QGe(tech_count, QInt(5)) THEN 20
              ELSE IF QGe(tech_count, QInt(3)) THEN 15
              ELSE IF QGe(tech_count, QInt(1)) THEN 10
              ELSE 0
        s4 == (IF Get(features, "has_overall_structure", FALSE) THEN 8 ELSE 0)
              + (IF Get(features, "has_examples", FALSE) THEN 7 ELSE 0)
        confidence_score == Get(features, "confidence_score", Zero)
        s5 == IF QGe(confidence_score, QInt(2)) THEN 15
              ELSE IF QGe(confidence_score, QInt(0)) THEN 10
              ELSE IF QGe(confidence_score, QInt(-1)) THEN 5
              ELSE 0
        vocab_diversity == Get(features, "vocabulary_diversity", Zero)
        s6 == IF QGe(vocab_diversity, Dec(70)) THEN 15
              ELSE IF QGe(vocab_diversity, Dec(50)) THEN 10
              ELSE IF QGe(vocab_diversity, Dec(30)) THEN 5
              ELSE 0
        score == s1 + s2 + s3 + s4 + s5 + s6
        percentage == QMul(Q(score, 100), QInt(100))
        rating == IF QGe(percentage, QInt(85)) THEN "excellent"
                  ELSE IF QGe(percentage, QInt(70)) THEN "good"
                  ELSE IF QGe(percentage, QInt(50)) THEN "average"
                  ELSE "poor"
    IN  [prediction |-> rating,
         confidence |-> Dec(80),
         score_percentage |-> percentage,
         method |-> "rule_based"]

\* The fitted classifier and scaler are data of the model file.  A classifier
\* is one of two kinds: "by_length" labels a response by its scaled word
\* count, and "fragile" is by_length except that it raises on a row whose
\* word count is zero.  The result holds predict(X)[0] and predict_proba(X)[0].
ClassifierPredict(model, X) ==
    IF model = "fragile" /\ X["word_count"] = Zero
    THEN [raised |-> TRUE]
    ELSE LET wc == X["word_count"]
         IN  [raised |-> FALSE,
              prediction |-> IF QGe(wc, QInt(50)) THEN "good"
                             ELSE IF QGe(wc, QInt(15)) THEN "average"
                             ELSE "poor",
              probabilities |->
                 IF QGe(wc, QInt(50))
                 THEN [average |-> Dec(10), good |-> Dec(90), poor |-> Zero]
                 ELSE IF QGe(wc, QInt(15))
                 THEN [average |-> Dec(60), good |-> Dec(30), poor |-> Dec(10)]
                 ELSE [average |-> Dec(40), good |-> Zero, poor |-> Dec(60)]]

\* whether the try block of _get_ml_prediction raises.
\* pd.DataFrame([features])[self.feature_names] is a KeyError when
\* feature_names is None or names a column the frame lacks.
PredictionRaises(self, features) ==
    \/ self.feature_names = None
    \/ ~(Val(self.feature_names) \subseteq DOMAIN features)
    \/ ClassifierPredict(Val(self.model),
                         [k \in Val(self.feature_names) |-> features[k]]).raised

\* _get_ml_prediction without its except clause: the exception reaches the caller
GetMlPredictionMutant(self, features) ==
    IF PredictionRaises(self, features)
    THEN [raised |-> TRUE]
    ELSE LET X == [k \in Val(self.feature_names) |-> features[k]]
             out == ClassifierPredict(Val(self.model), X)
             probabilities == out.probabilities
             confidence == QMax(probabilities.average,
                                QMax(probabilities.good, probabilities.poor))
         IN  [prediction |-> out.prediction,
              confidence |-> confidence,
              class_probabilities |-> probabilities,
              method |-> "ml_model"]

\* the whole body runs inside try; on any exception the rule-based prediction
\* is returned instead
_get_ml_prediction(self, features) ==
    IF PredictionRaises(self, features)
    THEN _get_rule_based_prediction(features)
    ELSE LET X == [k \in Val(self.feature_names) |-> features[k]]
             out == ClassifierPredict(Val(self.model), X)
             probabilities == out.probabilities
             confidence == QMax(probabilities.average,
                                QMax(probabilities.good, probabilities.poor))
         IN  [prediction |-> out.prediction,
              confidence |-> confidence,
              class_probabilities |-> probabilities,
              method |-> "ml_model"]

\* the analyzer that gives up its model once a prediction has failed
AfterPredictionMutant(self, features) ==
    IF self.model # None /\ self.scaler # None /\ PredictionRaises(self, features)
    THEN [self EXCEPT !.model = None]
    ELSE self

\* the analyzer's attributes after the prediction step of analyze_response:
\* the step reads self.model, self.scaler and self.feature_names and assigns
\* none of them, also when the prediction raises and the fallback is taken
AfterPrediction(self, features) == self

\* interview_type.startswith('technical')
StartsWithTechnical(interview_type) ==
    interview_type \in {"technical_software", "technical_hardware"}

\* min(10, max(0, x))
Clamp10(x) == QMin(QInt(10), QMax(Zero, x))

\* the content-quality part of _calculate_component_scores
ContentScore(features) ==
    LET word_count == Get(features, "word_count", Zero)
        length_score == IF QGe(word_count, QInt(80)) THEN 10
                        ELSE IF QGe(word_count, QInt(50)) THEN 8
                        ELSE IF QGe(word_count, QInt(30)) THEN 6
                        ELSE IF QGe(word_count, QInt(15)) THEN 4
                        ELSE 2
        structure_score ==
              (IF Get(features, "has_overall_structure", FALSE) THEN 3 ELSE 0)
            + (IF Get(features, "has_examples", FALSE) THEN 3 ELSE 0)
            + (IF Get(features, "has_quantifiable_results", FALSE) THEN 2 ELSE 0)
            + (IF QGt(Get(features, "structure_score", Zero), One) THEN 2 ELSE 0)
        relevance_score == QMul(Get(features, "relevance_score", Q(1, 2)), QInt(10))
        content_score == QAdd(QAdd(QMul(QInt(length_score), Dec(40)),
                                   QMul(QInt(structure_score), Dec(30))),
                              QMul(relevance_score, Dec(30)))
    IN  Clamp10(content_score)

\* the filler-word penalty of the communication score
FillerPenaltyMutant(filler_ratio) ==
    IF QGt(filler_ratio, Dec(10)) THEN 1
    ELSE IF QGt(filler_ratio, Dec(5)) THEN 2
    ELSE IF QGt(filler_ratio, Dec(2)) THEN 4
    ELSE 0

FillerPenalty(filler_ratio) ==
    IF QGt(filler_ratio, Dec(10)) THEN 4
    ELSE IF QGt(filler_ratio, Dec(5)) THEN 2
    ELSE IF QGt(filler_ratio, Dec(2)) THEN 1
    ELSE 0

\* a communication score that reads the vocabulary diversity from
\* unique_word_ratio
CommunicationScoreMutant(features) ==
    LET filler_ratio == Get(features, "filler_word_ratio", Zero)
        c1 == 10 - FillerPenalty(filler_ratio)
        avg_sentence_length == Get(features, "avg_sentence_length", Zero)
        c2 == IF QLe(QInt(15), avg_sentence_length) /\ QLe(avg_sentence_length, QInt(25))
              THEN c1 + 1
              ELSE IF QLt(avg_sentence_length, QInt(8)) \/ QGt(avg_sentence_length, QInt(35))
              THEN c1 - 1
              ELSE c1
        vocab_diversity == Get(features, "unique_word_ratio", Zero)
        communication_score == IF QGe(vocab_diversity, Dec(70)) THEN c2 + 1
                               ELSE IF QLt(vocab_diversity, Dec(30)) THEN c2 - 1
                               ELSE c2
    IN  Clamp10(QInt(communication_score))

\* the communication part of _calculate_component_scores
CommunicationScore(features) ==
    LET filler_ratio == Get(features, "filler_word_ratio", Zero)
        c1 == 10 - FillerPenalty(filler_ratio)
        avg_sentence_length == Get(features, "avg_sentence_length", Zero)
        c2 == IF QLe(QInt(15), avg_sentence_length) /\ QLe(avg_sentence_length, QInt(25))
              THEN c1 + 1
              ELSE IF QLt(avg_sentence_length, QInt(8)) \/ QGt(avg_sentence_length, QInt(35))
              THEN c1 - 1
              ELSE c1
        vocab_diversity == Get(features, "vocabulary_diversity", Zero)
        communication_score == IF QGe(vocab_diversity, Dec(70)) THEN c2 + 1
                               ELSE IF QLt(vocab_diversity, Dec(30)) THEN c2 - 1
                               ELSE c2
    IN  Clamp10(QInt(communication_score))

\* a confidence score stepped on the indicator count, positive hits minus
\* negative hits
ConfidenceScoreMutant(features) ==
    LET confidence_indicators ==
            QSub(Get(features, "confidence_indicators_positive", Zero),
                 Get(features, "confidence_indicators_negative", Zero))
    IN  IF QGe(confidence_indicators, QInt(3)) THEN QInt(9)
        ELSE IF QGe(confidence_indicators, QInt(1)) THEN QInt(8)
        ELSE IF QGe(confidence_indicators, QInt(0)) THEN QInt(7)
        ELSE IF QGe(confidence_indicators, QInt(-1)) THEN QInt(5)
        ELSE QInt(3)

\* the confidence part of _calculate_component_scores
ConfidenceScore(features) ==
    LET confidence_indicators == Get(features, "confidence_score", Zero)
    IN  IF QGe(confidence_indicators, QInt(3)) THEN QInt(9)
        ELSE IF QGe(confidence_indicators, QInt(1)) THEN QInt(8)
        ELSE IF QGe(confidence_indicators, QInt(0)) THEN QInt(7)
        ELSE IF QGe(confidence_indicators, QInt(-1)) THEN QInt(5)
        ELSE QInt(3)

\* the technical-accuracy part of _calculate_component_scores
TechnicalScore(features, interview_type) ==
    LET tech_terms == Get(features, "technical_term_count", Zero)
        tech_ratio == Get(features, "technical_term_ratio", Zero)
        has_examples == Get(features, "has_examples", FALSE)
        has_overall_structure == Get(features, "has_overall_structure", FALSE)
    IN  IF StartsWithTechnical(interview_type)
        THEN IF QGe(tech_terms, QInt(5)) /\ QGe(tech_ratio, Dec(5)) THEN QInt(9)
             ELSE IF QGe(tech_terms, QInt(3)) /\ QGe(tech_ratio, Dec(3)) THEN QInt(7)
             ELSE IF QGe(tech_terms, QInt(1)) THEN QInt(5)
             ELSE QInt(3)
        ELSE IF has_examples /\ has_overall_structure THEN QInt(8)
             ELSE IF has_examples \/ has_overall_structure THEN QInt(6)
             ELSE QInt(4)

_calculate_component_scores(features, response_text, interview_type) ==
    [content_quality |-> ContentScore(features),
     communication |-> CommunicationScore(features),
     confidence |-> ConfidenceScore(features),
     technical_accuracy |-> TechnicalScore(features, interview_type)]

\* the rating of a score below every threshold, as the session level words it
ScoreToRatingMutant(score) ==
    IF QGe(score, Dec(850)) THEN "excellent"
    ELSE IF QGe(score, Dec(700)) THEN "good"
    ELSE IF QGe(score, Dec(500)) THEN "average"
    ELSE "needs_improvement"

_score_to_rating(score) ==
    IF QGe(score, Dec(850)) THEN "excellent"
    ELSE IF QGe(score, Dec(700)) THEN "good"
    ELSE IF QGe(score, Dec(500)) THEN "average"
    ELSE "poor"

\* the component scores weighted equally
WeightedScoreMutant(scores) ==
    QDiv(QAdd(QAdd(scores.content_quality, scores.communication),
              QAdd(scores.confidence, scores.technical_accuracy)),
         QInt(4))

\* the weighted sum of the component scores, before rounding
WeightedScore(scores) ==
    QAdd(QAdd(QMul(scores.content_quality, Dec(35)),
              QMul(scores.communication, Dec(25))),
         QAdd(QMul(scores.confidence, Dec(20)),
              QMul(scores.technical_accuracy, Dec(20))))

analyze_response(self, response_text, question_text, interview_type) ==
    LET features == extract_all_features(response_text, question_text, interview_type)
        ml_prediction == IF self.model # None /\ self.scaler # None
                         THEN _get_ml_prediction(self, features)
                         ELSE _get_rule_based_prediction(features)
        scores == _calculate_component_scores(features, response_text, interview_type)
        overall_score == WeightedScore(scores)
        rating == _score_to_rating(overall_score)
    IN  [overall_score |-> Round2(overall_score),
         rating |-> rating,
         scores |-> scores,
         ml_prediction |-> ml_prediction,
         features |-> features,
         interview_type |-> interview_type]

\* batch_analyze: the analyses of the responses, in order; a missing
\* interview_type is technical_software
batch_analyze(self, responses) ==
    [i \in 1..Len(responses) |->
        analyze_response(self,
                         Get(responses[i], "response_text", <<>>),
                         Get(responses[i], "question_text", <<>>),
                         Get(responses[i], "interview_type", "technical_software"))]

\* a feedback item; the message is the name of its fixed text, followed for
\* the filler-word message by the percentage shown in it
\* a feedback entry that carries no category
ItemMutant(type, category, message) ==
    [type |-> type, message |-> message]

\* one feedback dictionary
Item(type, category, message) ==
    [type |-> type, category |-> category, message |-> message]

\* f'{filler_ratio:.1%}'
Percent1(ratio) == RoundTo(QMul(ratio, QInt(100)), 10)

\* the content branch without its else: the content strength is always appended
GenerateFeedbackSuggestionsMutant(analysis_result) ==
    LET features == analysis_result.features
        scores == analysis_result.scores
        content ==
            (IF QLt(scores.content_quality, QInt(6))
             THEN (IF QLt(Get(features, "word_count", Zero), QInt(30))
                   THEN <<Item("improvement", "content", <<"quite brief">>)>>
                   ELSE <<>>)
                  \o (IF ~Get(features, "has_examples", FALSE)
                      THEN <<Item("improvement", "content", <<"include specific examples">>)>>
                      ELSE <<>>)
             ELSE <<>>)
            \o <<Item("strength", "content", <<"detailed and well-structured content">>)>>
        filler_ratio == Get(features, "filler_word_ratio", Zero)
        communication ==
            IF QLt(scores.communication, QInt(6))
            THEN IF QGt(filler_ratio, Dec(5))
                 THEN <<Item("improvement", "communication",
                             <<"reduce filler words", Percent1(filler_ratio)>>)>>
                 ELSE <<>>
            ELSE <<Item("strength", "communication", <<"clear and articulate">>)>>
        confidence ==
            IF QLt(scores.confidence, QInt(6))
            THEN <<Item("improvement", "confidence", <<"use more confident language">>)>>
            ELSE <<Item("strength", "confidence", <<"confident and assertive delivery">>)>>
        technical ==
            IF QLt(scores.technical_accuracy, QInt(6))
            THEN IF StartsWithTechnical(analysis_result.interview_type)
                 THEN <<Item("improvement", "technical", <<"more technical terminology">>)>>
                 ELSE <<Item("improvement", "structure", <<"use the STAR method">>)>>
            ELSE <<>>
    IN  content \o communication \o confidence \o technical

\* the feedback list, built branch by branch in the order of the code
generate_feedback_suggestions(analysis_result) ==
    LET features == analysis_result.features
        scores == analysis_result.scores
        content ==
            IF QLt(scores.content_quality, QInt(6))
            THEN (IF QLt(Get(features, "word_count", Zero), QInt(30))
                  THEN <<Item("improvement", "content", <<"quite brief">>)>>
                  ELSE <<>>)
                 \o (IF ~Get(features, "has_examples", FALSE)
                     THEN <<Item("improvement", "content", <<"include specific examples">>)>>
                     ELSE <<>>)
            ELSE <<Item("strength", "content", <<"detailed and well-structured content">>)>>
        filler_ratio == Get(features, "filler_word_ratio", Zero)
        communication ==
            IF QLt(scores.communication, QInt(6))
            THEN IF QGt(filler_ratio, Dec(5))
                 THEN <<Item("improvement", "communication",
                             <<"reduce filler words", Percent1(filler_ratio)>>)>>
                 ELSE <<>>
            ELSE <<Item("strength", "communication", <<"clear and articulate">>)>>
        confidence ==
            IF QLt(scores.confidence, QInt(6))
            THEN <<Item("improvement", "confidence", <<"use more confident language">>)>>
            ELSE <<Item("strength", "confidence", <<"confident and assertive delivery">>)>>
        technical ==
            IF QLt(scores.technical_accuracy, QInt(6))
            THEN IF StartsWithTechnical(analysis_result.interview_type)
                 THEN <<Item("improvement", "technical", <<"more technical terminology">>)>>
                 ELSE <<Item("improvement", "structure", <<"use the STAR method">>)>>
            ELSE <<>>
    IN  content \o communication \o confidence \o technical

ComponentNames == <<"content_quality", "communication", "confidence", "technical_accuracy">>

\* min(avg_scores, key=avg_scores.get): the first key, in the order of the
\* dictionary, whose value is the least
MinKey(avg_scores) ==
    ComponentNames[CHOOSE i \in 1..4 :
        /\ \A j \in 1..4 : QLe(avg_scores[ComponentNames[i]], avg_scores[ComponentNames[j]])
        /\ \A j \in 1..(i - 1) :
              QGt(avg_scores[ComponentNames[j]], avg_scores[ComponentNames[i]])]

\* max(avg_scores, key=avg_scores.get)
MaxKey(avg_scores) ==
    ComponentNames[CHOOSE i \in 1..4 :
        /\ \A j \in 1..4 : QGe(avg_scores[ComponentNames[i]], avg_scores[ComponentNames[j]])
        /\ \A j \in 1..(i - 1) :
              QLt(avg_scores[ComponentNames[j]], avg_scores[ComponentNames[i]])]

\* the empty dictionary {}
EmptyDict == [empty |-> TRUE]

\* recommendations whose threshold includes an average of exactly 6
GetImprovementRecommendationsMutant(session_analyses) ==
    IF session_analyses = <<>>
    THEN EmptyDict
    ELSE LET n == Len(session_analyses)
             avg_scores ==
                [k \in SeqToSet(ComponentNames) |->
                    Mean([i \in 1..n |-> session_analyses[i].scores[k]])]
             rec(k, text) == IF QLe(avg_scores[k], QInt(6)) THEN <<text>> ELSE <<>>
         IN  [overall_score |-> Mean([i \in 1..n |-> session_analyses[i].overall_score]),
              strongest_area |-> MaxKey(avg_scores),
              weakest_area |-> MinKey(avg_scores),
              avg_scores |-> avg_scores,
              specific_recommendations |->
                     rec("content_quality", "more comprehensive answers")
                  \o rec("communication", "practice reducing filler words")
                  \o rec("confidence", "work on confident delivery")
                  \o rec("technical_accuracy", "strengthen technical knowledge")]

\* the averages, the extreme areas and one recommendation per weak area
get_improvement_recommendations(session_analyses) ==
    IF session_analyses = <<>>
    THEN EmptyDict
    ELSE LET n == Len(session_analyses)
             avg_scores ==
                [k \in SeqToSet(ComponentNames) |->
                    Mean([i \in 1..n |-> session_analyses[i].scores[k]])]
             rec(k, text) == IF QLt(avg_scores[k], QInt(6)) THEN <<text>> ELSE <<>>
         IN  [overall_score |-> Mean([i \in 1..n |-> session_analyses[i].overall_score]),
              strongest_area |-> MaxKey(avg_scores),
              weakest_area |-> MinKey(avg_scores),
              avg_scores |-> avg_scores,
              specific_recommendations |->
                     rec("content_quality", "more comprehensive answers")
                  \o rec("communication", "practice reducing filler words")
                  \o rec("confidence", "work on confident delivery")
                  \o rec("technical_accuracy", "strengthen technical knowledge")]

(***************************************************************************)
(* main.py: the session aggregator                                         *)
(***************************************************************************)
\* a DECIMAL(4, 2) column: the value read back has two decimals
Decimal2(x) == Round2(x)

\* the rating part of calculate_overall_feedback
SessionRating(overall_score) ==
    IF QGe(overall_score, Dec(850)) THEN "excellent"
    ELSE IF QGe(overall_score, Dec(700)) THEN "good"
    ELSE IF QGe(overall_score, Dec(500)) THEN "average"
    ELSE "needs_improvement"

\* the feedback of an empty session with nothing to suggest
InsufficientDataMutant ==
    [overall_score |-> Zero,
     overall_rating |-> "insufficient_data",
     strengths |-> <<>>,
     improvements |-> <<>>,
     detailed_metrics |-> EmptyDict]

\* what calculate_overall_feedback returns for no responses
InsufficientData ==
    [overall_score |-> Zero,
     overall_rating |-> "insufficient_data",
     strengths |-> <<>>,
     improvements |-> <<"Complete more questions to get detailed feedback">>,
     detailed_metrics |-> EmptyDict]

\* the improvements with nothing added when no rule has fired
GeneralAdviceMutant(improvements) == improvements

\* if not improvements: improvements.append(<general advice>)
GeneralAdvice(improvements) ==
    IF improvements = <<>>
    THEN <<"Continue practicing to maintain your strong performance">>
    ELSE improvements

calculate_overall_feedback(responses) ==
    IF responses = <<>>
    THEN InsufficientData
    ELSE LET n == Len(responses)
             col(k) == [i \in 1..n |-> responses[i][k]]
             avg_content == QDiv(QSum(col("content_quality_score")), QInt(n))
             avg_communication == QDiv(QSum(col("communication_score")), QInt(n))
             avg_confidence == QDiv(QSum(col("confidence_score")), QInt(n))
             avg_technical == QDiv(QSum(col("technical_accuracy_score")), QInt(n))
             overall_score ==
                QDiv(QAdd(QAdd(avg_content, avg_communication),
                          QAdd(avg_confidence, avg_technical)), QInt(4))
             overall_rating == SessionRating(overall_score)
             total_words == QSum(col("word_count"))
             total_filler_words == QSum(col("filler_word_count"))
             total_tech_terms == QSum(col("technical_term_count"))
             avg_word_length == QDiv(QSum(col("average_word_length")), QInt(n))
             fillers_per_response == QDiv(total_filler_words, QInt(n))
             when(c, text) == IF c THEN <<text>> ELSE <<>>
             strengths ==
                   when(QGe(avg_communication, QInt(8)),
                        "Excellent communication skills with clear articulation")
                \o when(QGe(avg_technical, QInt(8)),
                        "Strong technical knowledge and accurate explanations")
                \o when(QGe(avg_confidence, QInt(8)),
                        "Confident and assertive delivery throughout")
                \o when(QLe(fillers_per_response, QInt(2)),
                        "Professional speech with minimal filler words")
                \o when(QGe(avg_content, QInt(8)),
                        "Well-structured responses with good depth and examples")
             improvements0 ==
                   when(QLt(avg_communication, QInt(6)),
                        "Work on clarity and structure of responses")
                \o when(QLt(avg_technical, QInt(6)),
                        "Deepen technical knowledge in key areas")
                \o when(QLt(avg_confidence, QInt(6)),
                        "Practice to build confidence in your delivery")
                \o when(QGt(fillers_per_response, QInt(5)),
                        "Reduce filler words through practice and pausing")
                \o when(QLt(avg_content, QInt(6)),
                        "Provide more detailed answers with specific examples")
             improvements == GeneralAdvice(improvements0)
         IN  [overall_score |-> Round2(overall_score),
              overall_rating |-> overall_rating,
              strengths |-> strengths,
              improvements |-> improvements,
              detailed_metrics |->
                [average_scores |->
                    [content_quality |-> Round2(avg_content),
                     communication |-> Round2(avg_communication),
                     confidence |-> Round2(avg_confidence),
                     technical_accuracy |-> Round2(avg_technical)],
                 aggregated_stats |->
                    [total_words |-> total_words,
                     total_filler_words |-> total_filler_words,
                     total_tech_terms |-> total_tech_terms,
                     responses_count |-> QInt(n),
                     avg_word_length |-> Round2(avg_word_length),
                     filler_word_ratio |->
                        Round4(IF QGt(total_words, Zero)
                               THEN QDiv(total_filler_words, total_words)
                               ELSE Zero)]]]

\* the SessionResponse row that the analyze-response endpoint stores for an
\* analysis, as read back from the table
ResponseRow(session_id, question_id, question_number, response_text, analysis) ==
    [session_id |-> session_id,
     question_id |-> question_id,
     question_number |-> question_number,
     response_text |-> response_text,
     word_count |-> Get(analysis.features, "word_count", Zero),
     filler_word_count |-> Get(analysis.features, "filler_word_count", Zero),
     technical_term_count |-> Get(analysis.features, "technical_term_count", Zero),
     average_word_length |-> Decimal2(Get(analysis.features, "avg_word_length", Zero)),
     content_quality_score |-> Decimal2(analysis.scores.content_quality),
     communication_score |-> Decimal2(analysis.scores.communication),
     confidence_score |-> Decimal2(analysis.scores.confidence),
     technical_accuracy_score |-> Decimal2(analysis.scores.technical_accuracy),
     overall_response_score |-> Decimal2(analysis.overall_score),
     response_rating |-> analysis.rating]

(***************************************************************************)
(* Inputs                                                                  *)
(***************************************************************************)
MaxCore == 2

CoreVocab == {"um", "api", "sure", "maybe", Period}

RECURSIVE SeqsUpTo(_, _)
SeqsUpTo(S, n) ==
    IF n = 0 THEN {<<>>}
    ELSE LET shorter == SeqsUpTo(S, n - 1)
         IN  shorter \cup {Append(s, x) : s \in {t \in shorter : Len(t) = n - 1}, x \in S}

Cores == SeqsUpTo(CoreVocab, MaxCore)

\* responses with the markers of a structured answer
Frames ==
    {<<"first", "finally">>,
     <<"for", "example">>,
     <<"first", "for", "example", "finally">>,
     <<"first", "api", "git", "sql", "rest", "json", "for", "example", "finally">>,
     <<"Um", "um", "like", "like", "you", "know", "you", "know">>,
     <<"i", "believe", "maybe", "firstly">>}

\* n further words of the response, alternately "work" and "team"
Pad(n) == [i \in 1..n |-> IF i % 2 = 1 THEN "work" ELSE "team"]

PadCounts == {0, 12, 14, 29, 49, 79, 81}

\* 20-word responses that say "um", "like" and "you know" twice each, with
\* sixteen different words: in one sentence, in two and in four
FillerTexts ==
    {<<"Um", "um", "like", "like", "you", "know", "you", "know",
       "plan", "goal", "task", "role", "market", "budget",
       "client", "vendor", "design", "review", "launch", "trend">>,
     <<"um", "like", "you", "know", "plan", "goal", "task", "role", "market",
       "budget", Period,
       "um", "like", "you", "know", "client", "vendor", "design", "review",
       "launch", "trend", Period>>,
     <<"um", "plan", "goal", "task", "role", Period,
       "like", "market", "budget", "client", "vendor", Period,
       "you", "know", "design", "review", "launch", Period,
       "um", "like", "you", "know", "trend", Period>>}

ResponseTexts ==
    {c \o Pad(n) : c \in Cores \cup Frames, n \in PadCounts}
    \cup {<<Blank>>, <<Blank, Blank>>, <<"42">>,
          <<"definitely", "sure", "clear", "confident">>}
    \cup FillerTexts

QuestionTexts ==
    {<<>>,
     <<"what", "is", "the">>,
     <<"how", "is", "work", "and", "team", "culture", "shaping", "product",
       "delivery", "quality", "customer", "trust">>}

InterviewTypes == {"technical_software", "technical_hardware", "behavioral", "general"}

\* what a model file can hold
ModelFiles ==
    {None,
     Some([model |-> Some("by_length"), scaler |-> Some("StandardScaler"),
           feature_names |-> Some(DOMAIN _get_empty_features)])}

(***************************************************************************)
(* State                                                                   *)
(***************************************************************************)
VARIABLES
    model_file, \* what MODEL_PATH holds when the analyzer is constructed
    analyzer,   \* the module-level InterviewAnalyzer of main.py
    reply,      \* the last call made by a single caller and what it returned
    threads,    \* the call each concurrent caller is in, with its local variables
    log,        \* the analyze_response calls completed by concurrent callers
    tables      \* the database: interview_sessions and session_responses

vars == <<model_file, analyzer, reply, threads, log, tables>>

Threads == {"t1", "t2"}

\* the tables after init_database: no session and no response stored
EmptyTables == [sessions |-> << >>, responses |-> << >>]

NoReply == [op |-> "none"]
Idle == reply.op = "none"
IdleThread == [pc |-> "idle"]

InitWith(files) ==
    /\ model_file \in files
    /\ analyzer = Construct(model_file)
    /\ reply = NoReply
    /\ threads = [t \in Threads |-> IdleThread]
    /\ log = <<>>
    /\ tables = EmptyTables

Init == InitWith(ModelFiles)

AnalyzeResponse(r, q, t) ==
    /\ Idle
    /\ reply' = [op |-> "analyze_response",
                 response_text |-> r, question_text |-> q, interview_type |-> t,
                 result |-> analyze_response(analyzer, r, q, t)]
    /\ UNCHANGED <<tables, model_file, analyzer, threads, log>>

\* the caller has consumed the reply
Return ==
    /\ ~Idle
    /\ reply' = NoReply
    /\ UNCHANGED <<tables, model_file, analyzer, threads, log>>

Next ==
    \/ Return
    \/ \E r \in ResponseTexts, q \in QuestionTexts, t \in InterviewTypes :
          AnalyzeResponse(r, q, t)

Spec == Init /\ [][Next]_vars

(***************************************************************************)
(* _calculate_component_scores applied to feature vectors                  *)
(***************************************************************************)
MaxFillerWords == 12

\* the filler-word ratios of a response of 100 words
FillerRatios == {Q(k, 100) : k \in 0..MaxFillerWords}

SentenceLengths == {QInt(5), QInt(20), QInt(30), QInt(40)}

FeatureVectors ==
    {Update(_get_empty_features,
            [word_count |-> QInt(100),
             sentence_count |-> QDiv(QInt(100), s),
             avg_sentence_length |-> s,
             filler_word_count |-> QMul(r, QInt(100)),
             filler_word_ratio |-> r]) :
        r \in FillerRatios, s \in SentenceLengths}

CalculateComponentScores(features, t) ==
    /\ Idle
    /\ reply' = [op |-> "_calculate_component_scores",
                 features |-> features, interview_type |-> t,
                 result |-> _calculate_component_scores(features, <<>>, t)]
    /\ UNCHANGED <<tables, model_file, analyzer, threads, log>>

NextScores ==
    \/ Return
    \/ \E features \in FeatureVectors, t \in InterviewTypes :
          CalculateComponentScores(features, t)

SpecScores == Init /\ [][NextScores]_vars

(***************************************************************************)
(* The analyze-response endpoint: analysis, stored row, feedback           *)
(***************************************************************************)
\* POST /api/interview/analyze-response for a question and a session that
\* exist: the analysis, the row stored for it and the feedback generated
\* from the analysis
AnalyzeResponseEndpoint(r, q, t) ==
    /\ Idle
    /\ \E analysis \in {analyze_response(analyzer, r, q, t)} :
           reply' = [op |-> "analyze_response_endpoint",
                     response_text |-> r, question_text |-> q,
                     interview_type |-> t,
                     analysis |-> analysis,
                     response_record |-> ResponseRow("s1", 1, 1, r, analysis),
                     feedback |-> generate_feedback_suggestions(analysis)]
    /\ UNCHANGED <<tables, model_file, analyzer, threads, log>>

NextFeedback ==
    \/ Return
    \/ \E r \in ResponseTexts, q \in QuestionTexts, t \in InterviewTypes :
          AnalyzeResponseEndpoint(r, q, t)

SpecFeedback == Init /\ [][NextFeedback]_vars

(***************************************************************************)
(* The analyses of a session, stored and aggregated                        *)
(***************************************************************************)
MaxResponses == 3

\* the answers given in a session, each with its question and interview type
SessionAnswers ==
    {[response_text |-> <<Blank>>, question_text |-> <<>>,
      interview_type |-> "general"],
     [response_text |-> Pad(12),
      question_text |-> <<"how", "is", "work", "and", "team", "culture",
                          "shaping", "product", "delivery", "quality",
                          "customer", "trust">>,
      interview_type |-> "technical_software"],
     [response_text |-> <<"first", "api", "git", "sql", "rest", "json",
                          "for", "example", "finally">> \o Pad(81),
      question_text |-> <<"how", "is", "work", "and", "team", "culture">>,
      interview_type |-> "technical_software"],
     [response_text |-> <<"Um", "um", "like", "like", "you", "know">> \o Pad(14),
      question_text |-> <<"what", "is", "the">>,
      interview_type |-> "behavioral"],
     [response_text |-> <<"first", "for", "example", "finally">> \o Pad(49),
      question_text |-> <<>>,
      interview_type |-> "behavioral"]}

\* analyze-response for each answer in turn, then end_interview's aggregation
\* of the rows stored for them
CalculateOverallFeedback(answers) ==
    /\ Idle
    /\ LET analyses == [i \in 1..Len(answers) |->
                           analyze_response(analyzer, answers[i].response_text,
                                            answers[i].question_text,
                                            answers[i].interview_type)]
           responses == [i \in 1..Len(answers) |->
                           ResponseRow("s1", 1, i, answers[i].response_text,
                                       analyses[i])]
       IN  reply' = [op |-> "calculate_overall_feedback",
                     analyses |-> analyses,
                     responses |-> responses,
                     result |-> calculate_overall_feedback(responses)]
    /\ UNCHANGED <<tables, model_file, analyzer, threads, log>>

NextSession ==
    \/ Return
    \/ \E answers \in SeqsUpTo(SessionAnswers, MaxResponses) :
          CalculateOverallFeedback(answers)

SpecSession == Init /\ [][NextSession]_vars

(***************************************************************************)
(* get_improvement_recommendations over hand-built analyses                *)
(***************************************************************************)
MaxAnalyses == 2

\* analyses as test_improvement_recommendations builds them: an overall score
\* and four component scores, here each 5 or 7
MockAnalyses ==
    {[overall_score |-> Round2(WeightedScore(scores)), scores |-> scores] :
        scores \in [SeqToSet(ComponentNames) -> {QInt(5), QInt(7)}]}

GetRecommendations(session_analyses) ==
    /\ Idle
    /\ reply' = [op |-> "get_improvement_recommendations",
                 session_analyses |-> session_analyses,
                 result |-> get_improvement_recommendations(session_analyses)]
    /\ UNCHANGED <<tables, model_file, analyzer, threads, log>>

NextRecommend ==
    \/ Return
    \/ \E session_analyses \in SeqsUpTo(MockAnalyses, MaxAnalyses) :
          GetRecommendations(session_analyses)

SpecRecommend == Init /\ [][NextRecommend]_vars

(***************************************************************************)
(* main.py: the interview endpoints over the database                      *)
(***************************************************************************)
MaxSessions == 2
MaxStored == 2

\* uuid4 values: the n-th session created gets the n-th of them
SessionIds == <<"s1", "s2", "s3">>

\* the interview_questions table after seed_questions
InterviewQuestions ==
    {[question_id |-> 1,
      question_text |-> <<"how", "is", "work", "and", "team", "culture">>,
      interview_type |-> "technical_software",
      difficulty_level |-> "intermediate"]}

\* db.query(InterviewSession).filter(session_id == ...).first(): the position
\* of the row, 0 when there is none
SessionIndex(db, session_id) ==
    IF \E i \in 1..Len(db.sessions) : db.sessions[i].session_id = session_id
    THEN CHOOSE i \in 1..Len(db.sessions) : db.sessions[i].session_id = session_id
    ELSE 0

\* db.query(SessionResponse).filter(session_id == ...).all()
ResponsesOf(db, session_id) ==
    SelectSeq(db.responses, LAMBDA row : row.session_id = session_id)

\* raise HTTPException(status_code=...) inside the try block of an endpoint:
\* the exception is an Exception, so the endpoint's except clause catches it
\* and raises HTTPException(status_code=500, detail=str(e)); nothing was
\* committed before
RaisedInTry(db, status_code) ==
    [db |-> db, status_code |-> 500, detail |-> status_code]

\* the questions get_questions_for_interview finds for a request
get_questions_for_interview(interview_type, difficulty) ==
    {q \in InterviewQuestions : /\ q.interview_type = interview_type
                                /\ q.difficulty_level = difficulty}

\* POST /api/interview/start
start_interview(db, request) ==
    IF get_questions_for_interview(request.interview_type, request.difficulty) = {}
    THEN RaisedInTry(db, 404)
    ELSE LET session_id == SessionIds[Len(db.sessions) + 1]
             session == [session_id |-> session_id,
                         interview_type |-> request.interview_type,
                         status |-> "in_progress",
                         overall_score |-> None,
                         overall_rating |-> None]
         IN  [db |-> [db EXCEPT !.sessions = Append(@, session)],
              status_code |-> 200,
              session_id |-> session_id]

\* POST /api/interview/analyze-response, given the analysis the analyzer
\* makes of the response for the question and the session's interview type
analyze_response_endpoint(db, self, request) ==
    LET questions == {q \in InterviewQuestions : q.question_id = request.question_id}
        at == SessionIndex(db, request.session_id)
    IN  IF questions = {} THEN RaisedInTry(db, 404)
        ELSE IF at = 0 THEN RaisedInTry(db, 404)
        ELSE LET question == CHOOSE q \in questions : TRUE
                 analysis == analyze_response(self, request.response_text,
                                              question.question_text,
                                              db.sessions[at].interview_type)
                 response_record == ResponseRow(request.session_id,
                                                request.question_id,
                                                request.question_number,
                                                request.response_text, analysis)
             IN  [db |-> [db EXCEPT !.responses = Append(@, response_record)],
                  status_code |-> 200,
                  rating |-> analysis.rating,
                  feedback |-> generate_feedback_suggestions(analysis)]

\* an end-interview that marks the session completed before it looks for
\* the session's responses
EndInterviewMutant(db, request) ==
    LET at == SessionIndex(db, request.session_id)
        responses == ResponsesOf(db, request.session_id)
    IN  IF at = 0 THEN RaisedInTry(db, 404)
        ELSE IF responses = <<>>
        THEN RaisedInTry([db EXCEPT !.sessions[at].status = "completed"], 400)
        ELSE LET overall_analysis == calculate_overall_feedback(responses)
             IN  [db |-> [db EXCEPT
                            !.sessions[at].status = "completed",
                            !.sessions[at].overall_score =
                                Some(Decimal2(overall_analysis.overall_score)),
                            !.sessions[at].overall_rating =
                                Some(overall_analysis.overall_rating)],
                  status_code |-> 200,
                  overall_score |-> overall_analysis.overall_score,
                  overall_rating |-> overall_analysis.overall_rating]

\* POST /api/interview/end
end_interview(db, request) ==
    LET at == SessionIndex(db, request.session_id)
        responses == ResponsesOf(db, request.session_id)
    IN  IF at = 0 THEN RaisedInTry(db, 404)
        ELSE IF responses = <<>> THEN RaisedInTry(db, 400)
        ELSE LET overall_analysis == calculate_overall_feedback(responses)
             IN  [db |-> [db EXCEPT
                            !.sessions[at].status = "completed",
                            !.sessions[at].overall_score =
                                Some(Decimal2(overall_analysis.overall_score)),
                            !.sessions[at].overall_rating =
                                Some(overall_analysis.overall_rating)],
                  status_code |-> 200,
                  overall_score |-> overall_analysis.overall_score,
                  overall_rating |-> overall_analysis.overall_rating]

\* GET /api/session/{session_id}
get_session_details(db, session_id) ==
    LET at == SessionIndex(db, session_id)
    IN  IF at = 0 THEN RaisedInTry(db, 404)
        ELSE [db |-> db,
              status_code |-> 200,
              status |-> db.sessions[at].status,
              overall_score |-> db.sessions[at].overall_score,
              overall_rating |-> db.sessions[at].overall_rating,
              responses_count |-> Len(ResponsesOf(db, session_id))]

\* the requests made of the endpoints
StartRequests ==
    {[interview_type |-> "technical_software", difficulty |-> "intermediate"],
     [interview_type |-> "general", difficulty |-> "intermediate"]}

RequestedSessionIds == {"s1", "s2", "invalid-session-id"}

AnalysisRequests ==
    {[session_id |-> s, question_id |-> q, question_number |-> 1,
      response_text |-> r] :
        s \in RequestedSessionIds, q \in {1, 999},
        r \in {<<Blank>>, <<"um", "api", "work", "team">>}}

\* a request is answered: the tables are what the endpoint left, and the
\* reply is the request with the endpoint's answer
Answer(op, request, outcome) ==
    /\ Idle
    /\ tables' = outcome.db
    /\ reply' = [op |-> op, request |-> request, outcome |-> outcome]
    /\ UNCHANGED <<model_file, analyzer, threads, log>>

StartInterview(request) ==
    /\ Len(tables.sessions) < MaxSessions
    /\ Answer("start_interview", request, start_interview(tables, request))

AnalyzeResponseRequest(request) ==
    /\ Len(tables.responses) < MaxStored
    /\ \E outcome \in {analyze_response_endpoint(tables, analyzer, request)} :
          Answer("analyze_response", request, outcome)

EndInterview(session_id) ==
    \E outcome \in {end_interview(tables, [session_id |-> session_id])} :
        Answer("end_interview", [session_id |-> session_id], outcome)

GetSessionDetails(session_id) ==
    Answer("get_session_details", [session_id |-> session_id],
           get_session_details(tables, session_id))

NextApi ==
    \/ Return
    \/ \E request \in StartRequests : StartInterview(request)
    \/ \E request \in AnalysisRequests : AnalyzeResponseRequest(request)
    \/ \E session_id \in RequestedSessionIds : EndInterview(session_id)
    \/ \E session_id \in RequestedSessionIds : GetSessionDetails(session_id)

SpecApi == Init /\ [][NextApi]_vars

(***************************************************************************)
(* Concurrent callers of the one analyzer                                  *)
(***************************************************************************)
MaxLog == 2

\* no model file, a model file as scripts/train_model.py writes it (no
\* feature_names), one whose classifier raises on some rows only, and one
\* trained on a column the extractor does not produce
ConcModelFiles ==
    {None,
     Some([model |-> Some("by_length"), scaler |-> Some("StandardScaler"),
           feature_names |-> None]),
     Some([model |-> Some("fragile"), scaler |-> Some("StandardScaler"),
           feature_names |-> Some(DOMAIN _get_empty_features)]),
     Some([model |-> Some("by_length"), scaler |-> Some("StandardScaler"),
           feature_names |-> Some(DOMAIN _get_empty_features
                                  \cup {"vocabulary_diversity"})])}

ConcInputs ==
    {[response_text |-> <<Blank>>, question_text |-> <<>>,
      interview_type |-> "general"],
     [response_text |-> <<"um", "api", "work", "team">>,
      question_text |-> <<"how", "is", "work", "and", "team", "culture">>,
      interview_type |-> "technical_software"]}

\* the list handed to batch_analyze; the second item names no interview type
BatchResponses ==
    <<[response_text |-> <<"um", "api", "work", "team">>,
       question_text |-> <<>>, interview_type |-> "behavioral"],
      [response_text |-> <<Blank>>, question_text |-> <<>>]>>

\* what an operation returns when it runs from start to end on analyzer self
RunAlone(self, op, input) ==
    CASE op = "analyze_response" ->
            analyze_response(self, input.response_text, input.question_text,
                             input.interview_type)
      [] op = "batch_analyze" -> batch_analyze(self, input)
      [] op = "generate_feedback_suggestions" ->
            generate_feedback_suggestions(input)
      [] op = "get_improvement_recommendations" ->
            get_improvement_recommendations(input)

\* the analyses completed so far, which the feedback operations are given
SessionAnalyses == [n \in 1..Len(log) |-> log[n].result]

\* analyze_response, line by line: the call
CallAnalyze(t, i) ==
    /\ threads[t].pc = "idle"
    /\ threads' = [threads EXCEPT ![t] =
          [pc |-> "called", op |-> "analyze_response", input |-> i]]
    /\ UNCHANGED <<tables, model_file, analyzer, reply, log>>

\* features = self.feature_extractor.extract_all_features(...)
Extract(t) ==
    /\ threads[t].pc = "called"
    /\ threads' = [threads EXCEPT ![t] =
          [pc |-> "extracted", op |-> "analyze_response", input |-> threads[t].input,
           features |-> extract_all_features(threads[t].input.response_text,
                                             threads[t].input.question_text,
                                             threads[t].input.interview_type)]]
    /\ UNCHANGED <<tables, model_file, analyzer, reply, log>>

\* the prediction, by the model when self.model and self.scaler are set
Predict(t) ==
    /\ threads[t].pc = "extracted"
    /\ LET features == threads[t].features
           use_model == analyzer.model # None /\ analyzer.scaler # None
       IN  /\ threads' = [threads EXCEPT ![t] =
                 [pc |-> "predicted", op |-> "analyze_response",
                  input |-> threads[t].input, features |-> features,
                  ml_prediction |->
                     IF use_model THEN _get_ml_prediction(analyzer, features)
                     ELSE _get_rule_based_prediction(features)]]
           /\ analyzer' = IF use_model THEN AfterPrediction(analyzer, features)
                          ELSE analyzer
    /\ UNCHANGED <<tables, model_file, reply, log>>

\* the component scores, the overall score, the rating and the result
Score(t) ==
    /\ threads[t].pc = "predicted"
    /\ LET features == threads[t].features
           input == threads[t].input
           scores == _calculate_component_scores(features, input.response_text,
                                                 input.interview_type)
           overall_score == WeightedScore(scores)
       IN  threads' = [threads EXCEPT ![t] =
              [pc |-> "returned", op |-> "analyze_response", input |-> input,
               features |-> features,
               result |-> [overall_score |-> Round2(overall_score),
                           rating |-> _score_to_rating(overall_score),
                           scores |-> scores,
                           ml_prediction |-> threads[t].ml_prediction,
                           features |-> features,
                           interview_type |-> input.interview_type]]]
    /\ UNCHANGED <<tables, model_file, analyzer, reply, log>>

CallBatch(t) ==
    /\ threads[t].pc = "idle"
    /\ threads' = [threads EXCEPT ![t] =
          [pc |-> "batch", op |-> "batch_analyze", input |-> BatchResponses,
           results |-> <<>>]]
    /\ UNCHANGED <<tables, model_file, analyzer, reply, log>>

\* one turn of the loop of batch_analyze
BatchStep(t) ==
    /\ threads[t].pc = "batch"
    /\ LET responses == threads[t].input
           results == threads[t].results
           response == responses[Len(results) + 1]
           response_text == Get(response, "response_text", <<>>)
           question_text == Get(response, "question_text", <<>>)
           interview_type == Get(response, "interview_type", "technical_software")
           features == extract_all_features(response_text, question_text, interview_type)
           appended == Append(results,
                              analyze_response(analyzer, response_text,
                                               question_text, interview_type))
       IN  /\ threads' = [threads EXCEPT ![t] =
                 IF Len(appended) = Len(responses)
                 THEN [pc |-> "returned", op |-> "batch_analyze",
                       input |-> responses, result |-> appended]
                 ELSE [pc |-> "batch", op |-> "batch_analyze",
                       input |-> responses, results |-> appended]]
           /\ analyzer' = IF analyzer.model # None /\ analyzer.scaler # None
                          THEN AfterPrediction(analyzer, features)
                          ELSE analyzer
    /\ UNCHANGED <<tables, model_file, reply, log>>

GenerateFeedbackSuggestions(t, analysis_result) ==
    /\ threads[t].pc = "idle"
    /\ threads' = [threads EXCEPT ![t] =
          [pc |-> "returned", op |-> "generate_feedback_suggestions",
           input |-> analysis_result,
           result |-> generate_feedback_suggestions(analysis_result)]]
    /\ UNCHANGED <<tables, model_file, analyzer, reply, log>>

GetImprovementRecommendations(t) ==
    /\ threads[t].pc = "idle"
    /\ threads' = [threads EXCEPT ![t] =
          [pc |-> "returned", op |-> "get_improvement_recommendations",
           input |-> SessionAnalyses,
           result |-> get_improvement_recommendations(SessionAnalyses)]]
    /\ UNCHANGED <<tables, model_file, analyzer, reply, log>>

\* the caller takes the result; a completed analyze_response is logged while
\* the log has room
ReturnCall(t) ==
    /\ threads[t].pc = "returned"
    /\ threads' = [threads EXCEPT ![t] = IdleThread]
    /\ log' = IF threads[t].op = "analyze_response" /\ Len(log) < MaxLog
              THEN Append(log, [input |-> threads[t].input,
                                features |-> threads[t].features,
                                result |-> threads[t].result])
              ELSE log
    /\ UNCHANGED <<tables, model_file, analyzer, reply>>

NextConc ==
    \E t \in Threads :
        \/ \E i \in ConcInputs : CallAnalyze(t, i)
        \/ Extract(t)
        \/ Predict(t)
        \/ Score(t)
        \/ CallBatch(t)
        \/ BatchStep(t)
        \/ \E n \in 1..Len(log) : GenerateFeedbackSuggestions(t, log[n].result)
        \/ GetImprovementRecommendations(t)
        \/ ReturnCall(t)

SpecConc == InitWith(ConcModelFiles) /\ [][NextConc]_vars

(***************************************************************************)
(* Properties of the analysis of one response                              *)
(***************************************************************************)
Analyzed == reply.op = "analyze_response"

BooleanFeatures ==
    {"has_introduction", "has_conclusion", "has_examples", "has_overall_structure"}

\* every feature of the vector is 0 or False
AllZeroFeatures(f) ==
    \A k \in DOMAIN f : IF k \in BooleanFeatures THEN f[k] = FALSE ELSE f[k] = Zero

\* the rating tiers on a score: >= 8.5, >= 7.0, >= 5.0, below
RatingTier(score) ==
    IF QGe(score, Q(85, 10)) THEN "excellent"
    ELSE IF QGe(score, QInt(7)) THEN "good"
    ELSE IF QGe(score, QInt(5)) THEN "average"
    ELSE "poor"

InZeroToTen(x) == QGe(x, Zero) /\ QLe(x, QInt(10))

\* C1: every feature vector returned has exactly the key set of the vector
\* returned for blank input, whatever the response, question and interview type.
C1_FixedKeySet ==
    Analyzed =>
        DOMAIN reply.result.features = DOMAIN extract_all_features(<<>>, <<>>, "general")

\* a non-blank response analysed without a question under an unknown type
C1_Witness ==
    /\ Analyzed
    /\ ~IsBlankText(reply.response_text)
    /\ Len(reply.response_text) > 1
    /\ reply.question_text = <<>>
    /\ reply.interview_type = "general"

\* C2: the analysis of an empty or whitespace-only response is zero-valued:
\* every feature is 0 or False and overall_score is 0.
C2_BlankIsZeroValued ==
    (Analyzed /\ IsBlankText(reply.response_text)) =>
        /\ AllZeroFeatures(reply.result.features)
        /\ reply.result.overall_score = Zero

\* C3: the rating of an analysis is the tier of the overall_score it reports.
C3_RatingIsTierOfReportedScore ==
    Analyzed => reply.result.rating = RatingTier(reply.result.overall_score)

\* C4: the four component scores and overall_score lie in [0, 10] and the
\* rating is one of excellent, good, average, poor.
C4_ScoresInRange ==
    Analyzed =>
        /\ InZeroToTen(reply.result.scores.content_quality)
        /\ InZeroToTen(reply.result.scores.communication)
        /\ InZeroToTen(reply.result.scores.confidence)
        /\ InZeroToTen(reply.result.scores.technical_accuracy)
        /\ InZeroToTen(reply.result.overall_score)
        /\ reply.result.rating \in {"excellent", "good", "average", "poor"}

\* an analysis rated good whose technical accuracy is in the top tier
C4_Witness ==
    /\ Analyzed
    /\ reply.result.rating = "good"
    /\ reply.result.scores.technical_accuracy = QInt(9)

\* 0.35*content_quality + 0.25*communication + 0.20*confidence + 0.20*technical_accuracy
ClaimedWeightedMean(scores) ==
    QSum(<<QMul(Q(35, 100), scores.content_quality),
           QMul(Q(25, 100), scores.communication),
           QMul(Q(20, 100), scores.confidence),
           QMul(Q(20, 100), scores.technical_accuracy)>>)

\* C5: overall_score is the weighted mean of the component scores of the same
\* analysis (weights 0.35, 0.25, 0.20, 0.20) rounded to 2 decimals.
C5_OverallIsWeightedMean ==
    Analyzed =>
        reply.result.overall_score = Round2(ClaimedWeightedMean(reply.result.scores))

\* an analysis whose weighted mean has more than two decimals
C5_Witness ==
    /\ Analyzed
    /\ Round2(ClaimedWeightedMean(reply.result.scores))
          # ClaimedWeightedMean(reply.result.scores)

Aggregated == reply.op = "calculate_overall_feedback" /\ reply.responses # <<>>

\* the session score: the mean of the four averages of the stored scores
SessionScore(responses) ==
    LET n == Len(responses)
        avg(k) == Mean([i \in 1..n |-> responses[i][k]])
    IN  Mean(<<avg("content_quality_score"), avg("communication_score"),
               avg("confidence_score"), avg("technical_accuracy_score")>>)

\* C6: the rating of a non-empty session is the label that the
\* single-response rule (>= 8.5 excellent, >= 7.0 good, >= 5.0 average, else
\* poor) gives to the session's score.
C6_SessionRatingIsScoreToRating ==
    Aggregated =>
        reply.result.overall_rating = _score_to_rating(SessionScore(reply.responses))

\* the mean of one component score over the session's analyses
ComponentMean(analyses, k) ==
    Mean([i \in 1..Len(analyses) |-> analyses[i].scores[k]])

\* C10: the session averages reported are exactly the arithmetic means of the
\* component scores of the session's analyses.
C10_AveragesAreExactMeans ==
    Aggregated =>
        \A k \in SeqToSet(ComponentNames) :
            reply.result.detailed_metrics.average_scores[k]
                = ComponentMean(reply.analyses, k)

CompletedAnalyses ==
    {log[n] : n \in 1..Len(log)} \cup
    {[input |-> threads[t].input, features |-> threads[t].features,
      result |-> threads[t].result] :
        t \in {u \in Threads : /\ threads[u].pc = "returned"
                               /\ threads[u].op = "analyze_response"}}

Extracted ==
    {[input |-> threads[t].input, features |-> threads[t].features] :
        t \in {u \in Threads : /\ threads[u].pc \in {"extracted", "predicted"}
                               /\ threads[u].op = "analyze_response"}}

\* C7: calls of analyze_response, and of extract_all_features, on the same
\* analyzer with the same response text, question text and interview type
\* return the same result, whatever calls were made in between.
C7_Deterministic ==
    /\ \A a, b \in CompletedAnalyses :
          a.input = b.input => a.result = b.result /\ a.features = b.features
    /\ \A a \in CompletedAnalyses, e \in Extracted :
          a.input = e.input => a.features = e.features

\* the same input analysed a second time after a completed call on another
\* input, the first call answered by the trained model
C7_Witness ==
    /\ Len(log) >= 2
    /\ log[2].input # log[1].input
    /\ log[1].result.ml_prediction.method = "ml_model"
    /\ \E t \in Threads :
          /\ threads[t].pc = "returned"
          /\ threads[t].op = "analyze_response"
          /\ threads[t].input = log[1].input
    /\ model_file # None
    /\ Val(model_file).model = Some("fragile")

\* C8: no step of an engine operation changes the analyzer, and every call
\* that returns while others run returns what it returns when run alone on
\* the analyzer as constructed.
C8_NoSharedWrites ==
    [][/\ analyzer' = analyzer
       /\ analyzer = Construct(model_file)
       /\ \A t \in Threads :
             threads'[t].pc = "returned" =>
                threads'[t].result
                    = RunAlone(Construct(model_file), threads'[t].op,
                               threads'[t].input)]_vars

\* a call returns while the other caller is between two steps of its own
\* call, after a prediction of the trained model has raised
C8_Witness ==
    /\ threads["t1"].pc = "returned"
    /\ threads["t1"].op = "analyze_response"
    /\ threads["t2"].pc \in {"predicted", "batch"}
    /\ Len(log) > 0
    /\ analyzer.model # None
    /\ PredictionRaises(analyzer, log[1].features)

Scored == reply.op = "_calculate_component_scores"

WithFillerRatio(features, r) == Update(features, [filler_word_ratio |-> r])

\* C9: a feature vector that differs from the scored one only in a larger
\* (or equal) filler_word_ratio has a communication score that is no larger.
C9_CommunicationMonotone ==
    Scored =>
        \A r \in FillerRatios :
            QGe(r, reply.features["filler_word_ratio"]) =>
                QLe(CommunicationScore(WithFillerRatio(reply.features, r)),
                    reply.result.communication)

\* a scored vector for which a larger filler ratio gives a strictly smaller
\* communication score
C9_Witness ==
    /\ Scored
    /\ reply.features["filler_word_ratio"] = Q(3, 100)
    /\ \E r \in FillerRatios :
          /\ QGt(r, reply.features["filler_word_ratio"])
          /\ QLt(CommunicationScore(WithFillerRatio(reply.features, r)),
                 reply.result.communication)

AggregatedEmpty == reply.op = "calculate_overall_feedback" /\ reply.responses = <<>>

\* C11: aggregating no analyses returns the neutral result: overall_score 0,
\* no strengths, and the one insufficient-data message as improvements.
C11_EmptySessionIsNeutral ==
    AggregatedEmpty =>
        /\ reply.result.overall_score = Zero
        /\ reply.result.strengths = <<>>
        /\ reply.result.improvements
              = <<"Complete more questions to get detailed feedback">>

\* the aggregator has been called on an empty session and has returned
C11_Witness ==
    /\ AggregatedEmpty
    /\ reply.analyses = <<>>
    /\ reply.result.overall_rating = "insufficient_data"

\* the improvement texts that a rule of calculate_overall_feedback adds
RuleImprovements ==
    {"Work on clarity and structure of responses",
     "Deepen technical knowledge in key areas",
     "Practice to build confidence in your delivery",
     "Reduce filler words through practice and pausing",
     "Provide more detailed answers with specific examples"}

\* C12: the improvements of a session feedback are never empty, and when no
\* improvement rule fires on a non-empty session they are exactly the one
\* general encouragement.
C12_ImprovementsNeverEmpty ==
    reply.op = "calculate_overall_feedback" =>
        /\ reply.result.improvements # <<>>
        /\ (/\ reply.responses # <<>>
            /\ SeqToSet(reply.result.improvements) \cap RuleImprovements = {})
           => reply.result.improvements
                 = <<"Continue practicing to maintain your strong performance">>

\* a session of two answers on which no improvement rule fires
C12_Witness ==
    /\ Aggregated
    /\ Len(reply.responses) = 2
    /\ SeqToSet(reply.result.improvements) \cap RuleImprovements = {}

\* total filler words / total words over the stored responses of a session
AggregateFillerRatio(responses) ==
    LET n == Len(responses)
        total_words == QSum([i \in 1..n |-> responses[i].word_count])
        total_filler_words == QSum([i \in 1..n |-> responses[i].filler_word_count])
    IN  IF QGt(total_words, Zero) THEN QDiv(total_filler_words, total_words) ELSE Zero

\* whether the filler-word strength and the filler-word improvement are given
FillerDecisions(feedback) ==
    <<"Professional speech with minimal filler words" \in SeqToSet(feedback.strengths),
      "Reduce filler words through practice and pausing" \in SeqToSet(feedback.improvements)>>

\* C13: the filler-word strength and improvement of a session are decided by
\* its aggregate filler-word ratio: sessions made of the same stored responses
\* that have the same ratio get the same two decisions.
C13_FillerRulesByAggregateRatio ==
    Aggregated =>
        \A other \in SeqsUpTo(SeqToSet(reply.responses), MaxResponses) \ {<<>>} :
            AggregateFillerRatio(other) = AggregateFillerRatio(reply.responses)
                => FillerDecisions(calculate_overall_feedback(other))
                      = FillerDecisions(reply.result)

\* the analyze_response calls whose prediction step is done: the threads past
\* the prediction and the logged calls, each with its features and prediction
Predictions ==
    {[features |-> threads[t].features,
      ml_prediction |-> IF threads[t].pc = "predicted"
                        THEN threads[t].ml_prediction
                        ELSE threads[t].result.ml_prediction] :
        t \in {u \in Threads : /\ threads[u].pc \in {"predicted", "returned"}
                                /\ threads[u].op = "analyze_response"}}
    \cup {[features |-> log[n].features,
           ml_prediction |-> log[n].result.ml_prediction] : n \in 1..Len(log)}

\* the prediction was asked of the model: self.model and self.scaler are set
UsesModel == analyzer.model # None /\ analyzer.scaler # None

\* C14: when the model is used and its prediction step raises, the prediction
\* of the analysis is the rule-based prediction of the same features, with
\* method 'rule_based'; nothing is raised to the caller.
C14_RaisingPredictorFallsBack ==
    \A p \in Predictions :
        UsesModel /\ PredictionRaises(analyzer, p.features)
            => /\ p.ml_prediction = _get_rule_based_prediction(p.features)
               /\ "method" \in DOMAIN p.ml_prediction
               /\ p.ml_prediction.method = "rule_based"

\* a logged analysis of the blank response by the analyzer whose classifier
\* raises on it, and one where the frame has no feature_names to select
C14_Witness ==
    /\ UsesModel
    /\ \E n \in 1..Len(log) :
          /\ PredictionRaises(analyzer, log[n].features)
          /\ log[n].result.ml_prediction.method = "rule_based"
    /\ \E t \in Threads :
          /\ threads[t].pc = "predicted"
          /\ PredictionRaises(analyzer, threads[t].features)

\* the row the claim describes: every expected column, 0 where the feature
\* vector has no such key
ZeroFilledRow(self, features) ==
    [k \in Val(self.feature_names) |-> Get(features, k, Zero)]

\* the expected feature ordering names a key the feature vector lacks
MissesFeatureKey(self, features) ==
    /\ self.feature_names # None
    /\ ~(Val(self.feature_names) \subseteq DOMAIN features)

\* C15: on the trained-model path a feature key that the expected ordering
\* names and the vector lacks counts as 0, and the prediction is the trained
\* model's, with method 'ml_model'.
C15_MissingKeyIsZero ==
    \A p \in Predictions :
        UsesModel /\ MissesFeatureKey(analyzer, p.features)
            => /\ p.ml_prediction.method = "ml_model"
               /\ p.ml_prediction.prediction =
                     ClassifierPredict(Val(analyzer.model),
                                       ZeroFilledRow(analyzer, p.features)).prediction

\* C16: the model is loaded once, when the analyzer is constructed, and the
\* analyzer keeps what construction gave it; when nothing could be loaded
\* every analysis reports method 'rule_based'; the method of every analysis
\* is 'ml_model' or 'rule_based'.
C16_LoadedOnceAndFallsBack ==
    /\ analyzer.model = (IF model_file = None THEN None ELSE Val(model_file).model)
    /\ analyzer.scaler = (IF model_file = None THEN None ELSE Val(model_file).scaler)
    /\ \A p \in Predictions :
          /\ p.ml_prediction.method \in {"ml_model", "rule_based"}
          /\ model_file = None => p.ml_prediction.method = "rule_based"

\* without a model file, two different responses have been analysed and a
\* third analysis has just returned
C16_Witness ==
    /\ model_file = None
    /\ Len(log) = 2
    /\ log[1].input # log[2].input
    /\ \A n \in 1..2 : log[n].result.ml_prediction.method = "rule_based"
    /\ \E t \in Threads :
          /\ threads[t].pc = "returned"
          /\ threads[t].op = "analyze_response"
          /\ threads[t].result.ml_prediction.method = "rule_based"

\* the analysed response is the one of the scenario: a technical interview
\* type, 90 words, 5 technical-term hits, an example marker, an introduction
\* marker and a conclusion marker
StructuredTechnicalAnswer ==
    /\ Analyzed
    /\ StartsWithTechnical(reply.interview_type)
    /\ reply.result.features.word_count = QInt(90)
    /\ reply.result.features.technical_term_count = QInt(5)
    /\ reply.result.features.has_examples
    /\ reply.result.features.has_introduction
    /\ reply.result.features.has_conclusion

\* C17: a technical answer of 90 words with 5 technical-term hits, an example
\* marker, an introduction marker and a conclusion marker scores at least 9
\* for technical accuracy and at least 8 for content quality, for every
\* question text and under either predictor.
C17_StructuredTechnicalAnswerScores ==
    StructuredTechnicalAnswer
        => /\ QGe(reply.result.scores.technical_accuracy, QInt(9))
           /\ QGe(reply.result.scores.content_quality, QInt(8))

\* how often the phrase occurs in the response, whatever its case
Occurrences(text, phrase) == CountLexicon(LowerText(text), {phrase})

\* the analysed response has 20 words and says "um", "like" and "you know"
\* twice each
TwentyWordsSixFillers ==
    /\ Analyzed
    /\ reply.result.features.word_count = QInt(20)
    /\ Occurrences(reply.response_text, <<"um">>) = 2
    /\ Occurrences(reply.response_text, <<"like">>) = 2
    /\ Occurrences(reply.response_text, <<"you", "know">>) = 2

\* C18: a 20-word response with "um", "like" and "you know" twice each has a
\* filler-word ratio of at least 0.3 and a communication score of at most 6,
\* however its words are split into sentences and however varied they are.
C18_FillerHeavyAnswer ==
    TwentyWordsSixFillers
        => /\ QGe(reply.result.features.filler_word_ratio, Dec(30))
           /\ QLe(reply.result.scores.communication, QInt(6))

\* the most favourable such response: one sentence of 20 words, four words
\* in five different; its communication score is exactly 6
C18_Witness ==
    /\ TwentyWordsSixFillers
    /\ reply.result.features.sentence_count = One
    /\ QGe(reply.result.features.unique_word_ratio, Dec(70))
    /\ reply.result.scores.communication = QInt(6)

(***************************************************************************)
(* Properties of the feedback generated for one analysis                   *)
(***************************************************************************)
Answered == reply.op = "analyze_response_endpoint"

\* the feedback categories that speak about a component score
ComponentCategories(k) ==
    CASE k = "content_quality" -> {"content"}
      [] k = "communication" -> {"communication"}
      [] k = "confidence" -> {"confidence"}
      [] k = "technical_accuracy" -> {"technical", "structure"}

\* the feedback holds an item of the type about component k
HasItem(feedback, type, k) ==
    \E i \in 1..Len(feedback) :
        /\ feedback[i].type = type
        /\ feedback[i].category \in ComponentCategories(k)

\* C19: for every analysis and each of the four components, a score of at
\* least 6.0 yields a strength item for the component and a score below 6.0
\* yields at least one improvement item for it.
C19_ThresholdFramesEveryComponent ==
    Answered =>
        \A k \in SeqToSet(ComponentNames) :
            IF QGe(reply.analysis.scores[k], QInt(6))
            THEN HasItem(reply.feedback, "strength", k)
            ELSE HasItem(reply.feedback, "improvement", k)

\* C20: the feedback of an analysis holds no item twice (no two entries agree
\* in type, category and message), and no component has both a strength and
\* an improvement item.
C20_NoItemTwice ==
    Answered =>
        /\ \A i, j \in 1..Len(reply.feedback) :
              i # j => reply.feedback[i] # reply.feedback[j]
        /\ \A k \in SeqToSet(ComponentNames) :
              ~(/\ HasItem(reply.feedback, "strength", k)
                /\ HasItem(reply.feedback, "improvement", k))

\* a feedback list with two improvement items for content, next to strength
\* items of other components
C20_Witness ==
    /\ Answered
    /\ Cardinality({i \in 1..Len(reply.feedback) :
                       /\ reply.feedback[i].category = "content"
                       /\ reply.feedback[i].type = "improvement"}) = 2
    /\ HasItem(reply.feedback, "strength", "communication")
    /\ HasItem(reply.feedback, "strength", "confidence")

\* C21: for every analysis produced by analyze_response the feedback list is
\* not empty, and each of its items has a type that is 'strength' or
\* 'improvement', a category and a message.
C21_FeedbackWellFormed ==
    Answered =>
        /\ Len(reply.feedback) > 0
        /\ \A i \in 1..Len(reply.feedback) :
              /\ {"type", "category", "message"} \subseteq DOMAIN reply.feedback[i]
              /\ reply.feedback[i].type \in {"strength", "improvement"}

\* an analysis with a content score below 6 that gets no content item: the
\* list is kept from being shorter by the items of the other components
C21_Witness ==
    /\ Answered
    /\ QLt(reply.analysis.scores.content_quality, QInt(6))
    /\ ~HasItem(reply.feedback, "improvement", "content_quality")
    /\ HasItem(reply.feedback, "strength", "confidence")
    /\ \E i \in 1..Len(reply.feedback) : reply.feedback[i].type = "improvement"

\* the confidence-polarity indicator count of a feature vector: positive hits
\* minus negative hits
IndicatorCount(features) ==
    QSub(features.confidence_indicators_positive,
         features.confidence_indicators_negative)

\* the steps the claim names, on a count
ConfidenceStep(count) ==
    IF QGe(count, QInt(3)) THEN QInt(9)
    ELSE IF QGe(count, QInt(1)) THEN QInt(8)
    ELSE IF QGe(count, QInt(0)) THEN QInt(7)
    ELSE IF QGe(count, QInt(-1)) THEN QInt(5)
    ELSE QInt(3)

\* C24: the confidence score of an analysis is the step function of the
\* indicator count of the response, positive hits minus negative hits: 9 from
\* 3, 8 from 1, 7 from 0, 5 from -1 and 3 below.
C24_ConfidenceStepsOnCount ==
    Analyzed =>
        reply.result.scores.confidence
            = ConfidenceStep(IndicatorCount(reply.result.features))

\* C28: the confidence score of every analysis is 7 or 8, so its feedback
\* holds the confidence strength item and no confidence improvement item.
C28_ConfidenceAlwaysStrength ==
    Answered =>
        /\ reply.analysis.scores.confidence \in {QInt(7), QInt(8)}
        /\ HasItem(reply.feedback, "strength", "confidence")
        /\ ~HasItem(reply.feedback, "improvement", "confidence")

\* a response with hedging words only, more negative hits than positive ones:
\* its confidence score is 7 and it gets the confidence strength
C28_Witness ==
    /\ Answered
    /\ QLt(IndicatorCount(reply.analysis.features), Zero)
    /\ reply.analysis.features.confidence_indicators_positive = Zero
    /\ reply.analysis.scores.confidence = QInt(7)
    /\ HasItem(reply.feedback, "strength", "confidence")

\* the feature vector with the response's unique-word ratio as its vocabulary
\* diversity
WithOwnDiversity(features) ==
    Update(features, [vocabulary_diversity |-> features.unique_word_ratio])

\* C25: the communication score of an analysis carries the adjustment for the
\* response's own vocabulary diversity, its unique-word ratio: +1 from 0.7,
\* -1 below 0.3, nothing in between, before the clamp to [0, 10].
C25_DiversityAdjustmentFollowsResponse ==
    Analyzed =>
        reply.result.scores.communication
            = CommunicationScore(WithOwnDiversity(reply.result.features))

\* the overlap the claim describes: the stop-word-filtered tokens common to
\* response and question over the stop-word-filtered question tokens, 0 when
\* the question has none
ClaimedOverlapRatio(response_text, question_text) ==
    LET question_words == ContentWords(question_text)
        common == ContentWords(response_text) \cap question_words
    IN  IF question_words = {} THEN Zero
        ELSE Q(Cardinality(common), Cardinality(question_words))

\* a non-blank response has been analysed
AnalyzedNonBlank == Analyzed /\ ~IsBlankText(reply.response_text)

\* C26 as stated: for every non-blank response and every question text the
\* overlap ratio is common tokens over question tokens and the relevance
\* score is min(2 * ratio, 1.0).
C26_RelevanceForEveryQuestion ==
    AnalyzedNonBlank =>
        LET ratio == ClaimedOverlapRatio(reply.response_text, reply.question_text)
        IN  /\ reply.result.features.keyword_overlap_ratio = ratio
            /\ reply.result.features.relevance_score
                  = QMin(QMul(QInt(2), ratio), One)

\* C26: for every non-blank response and every question text that is not
\* empty the overlap ratio is common tokens over question tokens and the
\* relevance score is min(2 * ratio, 1.0); for the empty question text the
\* overlap ratio is 0 and the relevance score is 0.5.
C26_RelevanceOfQuestion ==
    AnalyzedNonBlank =>
        LET ratio == ClaimedOverlapRatio(reply.response_text, reply.question_text)
        IN  /\ "keyword_overlap_ratio" \in DOMAIN reply.result.features
            /\ reply.result.features.keyword_overlap_ratio = ratio
            /\ reply.result.features.relevance_score
                  = (IF reply.question_text = <<>> THEN Q(1, 2)
                     ELSE QMin(QMul(QInt(2), ratio), One))

\* a response that shares some of the question's keywords, fewer than half
C26_Witness ==
    /\ AnalyzedNonBlank
    /\ QGt(reply.result.features.keyword_overlap_ratio, Zero)
    /\ QLt(reply.result.features.keyword_overlap_ratio, Q(1, 2))
    /\ reply.result.features.relevance_score
          = QMul(QInt(2), reply.result.features.keyword_overlap_ratio)

\* the interview types that have a lexicon
ConfiguredTypes == {"technical_software", "behavioral"}

\* C27: for an interview type without a lexicon the analysis of every
\* response completes: the result has its feature vector, its four scores
\* and its rating, and the technical-term count and ratio are 0.
C27_UnknownTypeHasEmptyLexicon ==
    Analyzed /\ reply.interview_type \notin ConfiguredTypes
        => /\ DOMAIN reply.result.features = DOMAIN _get_empty_features
           /\ DOMAIN reply.result.scores = SeqToSet(ComponentNames)
           /\ reply.result.rating \in {"excellent", "good", "average", "poor"}
           /\ reply.result.features.technical_term_count = Zero
           /\ reply.result.features.technical_term_ratio = Zero

\* a response that names a software term, analysed for a technical interview
\* type that has no lexicon
C27_Witness ==
    /\ Analyzed
    /\ reply.interview_type = "technical_hardware"
    /\ "api" \in SeqToSet(LowerText(reply.response_text))
    /\ reply.result.features.technical_term_count = Zero
    /\ reply.result.scores.technical_accuracy = QInt(3)

\* C29: for every feature vector that extract_all_features produces, the
\* score_percentage of the rule-based prediction lies within 0..80 and its
\* label is never 'excellent'.
C29_RuleBasedNeverExcellent ==
    Analyzed =>
        LET p == _get_rule_based_prediction(reply.result.features)
        IN  /\ QGe(p.score_percentage, Zero)
            /\ QLe(p.score_percentage, QInt(80))
            /\ p.prediction # "excellent"
            /\ reply.result.ml_prediction.method = "rule_based"
                  => reply.result.ml_prediction = p

\* the rule-based analysis of a response that earns every point the rubrics
\* can award: 80 of 100, labelled 'good'
C29_Witness ==
    /\ Analyzed
    /\ reply.result.ml_prediction.method = "rule_based"
    /\ reply.result.ml_prediction.score_percentage = QInt(80)
    /\ reply.result.ml_prediction.prediction = "good"

(***************************************************************************)
(* Properties of the recommendations for a session                         *)
(***************************************************************************)
Recommended ==
    /\ reply.op = "get_improvement_recommendations"
    /\ reply.session_analyses # <<>>

\* the recommendation that speaks about a component
RecommendationFor(k) ==
    CASE k = "content_quality" -> "more comprehensive answers"
      [] k = "communication" -> "practice reducing filler words"
      [] k = "confidence" -> "work on confident delivery"
      [] k = "technical_accuracy" -> "strengthen technical knowledge"

\* the average of component k over the analyses
AverageOf(session_analyses, k) ==
    QDiv(QSum([i \in 1..Len(session_analyses) |-> session_analyses[i].scores[k]]),
         QInt(Len(session_analyses)))

\* C23: for every non-empty list of analyses the weakest area has a least
\* average among the four components, the strongest area a greatest one, and
\* the specific recommendations hold a component's recommendation exactly
\* when its average is below 6.
C23_ExtremesAndRecommendations ==
    Recommended =>
        LET avg(k) == AverageOf(reply.session_analyses, k)
            given == SeqToSet(reply.result.specific_recommendations)
        IN  \A k \in SeqToSet(ComponentNames) :
                /\ QLe(avg(reply.result.weakest_area), avg(k))
                /\ QGe(avg(reply.result.strongest_area), avg(k))
                /\ RecommendationFor(k) \in given <=> QLt(avg(k), QInt(6))

\* two analyses whose averages are 5 for one component, exactly 6 for
\* another and 7 for a third: one recommendation only
C23_Witness ==
    /\ Recommended
    /\ Len(reply.session_analyses) = 2
    /\ AverageOf(reply.session_analyses, "content_quality") = QInt(5)
    /\ AverageOf(reply.session_analyses, "communication") = QInt(6)
    /\ AverageOf(reply.session_analyses, "confidence") = QInt(7)
    /\ AverageOf(reply.session_analyses, "technical_accuracy") = QInt(7)
    /\ reply.result.specific_recommendations = <<"more comprehensive answers">>
    /\ reply.result.weakest_area = "content_quality"

(***************************************************************************)
(* Properties of the interview endpoints                                   *)
(***************************************************************************)
\* the question ids of the interview_questions table
KnownQuestionIds == {q.question_id : q \in InterviewQuestions}

\* C22: the endpoints answer their lookup failures with the specific status
\* and change nothing stored: analyze-response for an unknown question or
\* session answers 404 and stores no row, session-details for an unknown
\* session answers 404, and end-interview for a session without stored
\* responses answers 400 and leaves the session 'in_progress'.
C22_LookupFailuresKeepTheirStatus ==
    [][reply'.op \in {"analyze_response", "get_session_details", "end_interview"}
          => LET request == reply'.request
                 at == SessionIndex(tables, request.session_id)
             IN  /\ (/\ reply'.op = "analyze_response"
                     /\ request.question_id \notin KnownQuestionIds \/ at = 0)
                       => /\ reply'.outcome.status_code = 404
                          /\ tables'.responses = tables.responses
                 /\ (reply'.op = "get_session_details" /\ at = 0)
                       => reply'.outcome.status_code = 404
                 /\ (/\ reply'.op = "end_interview"
                     /\ at # 0
                     /\ ResponsesOf(tables, request.session_id) = <<>>)
                       => /\ reply'.outcome.status_code = 400
                          /\ tables'.sessions[at].status = "in_progress"]_vars

\* C30: a session is created 'in_progress'; its status changes only by an
\* end-interview that succeeds for it while it has a stored response, which
\* makes it 'completed' and sets overall_score and overall_rating; a
\* 'completed' session stays 'completed'; a request that fails changes no
\* session's status.
C30_SessionLifecycle ==
    [][LET before == tables.sessions
           after == tables'.sessions
           failed == reply'.op # "none" /\ reply'.outcome.status_code # 200
       IN  /\ Len(after) >= Len(before)
           /\ \A i \in (Len(before) + 1)..Len(after) :
                 /\ after[i].status = "in_progress"
                 /\ reply'.op = "start_interview"
                 /\ ~failed
           /\ \A i \in 1..Len(before) :
                 /\ after[i].session_id = before[i].session_id
                 /\ before[i].status = "completed" => after[i].status = "completed"
                 /\ failed => after[i].status = before[i].status
                 /\ after[i].status # before[i].status
                       => /\ reply'.op = "end_interview"
                          /\ reply'.outcome.status_code = 200
                          /\ reply'.request.session_id = before[i].session_id
                          /\ ResponsesOf(tables, before[i].session_id) # <<>>
                          /\ after[i].status = "completed"
                          /\ after[i].overall_score # None
                          /\ after[i].overall_rating # None
           /\ (reply'.op = "end_interview" /\ ~failed)
                 => LET at == SessionIndex(tables, reply'.request.session_id)
                    IN  /\ at # 0
                        /\ ResponsesOf(tables, reply'.request.session_id) # <<>>
                        /\ after[at].status = "completed"
                        /\ after[at].overall_score
                              = Some(Decimal2(reply'.outcome.overall_score))
                        /\ after[at].overall_rating
                              = Some(reply'.outcome.overall_rating)]_vars

\* one session is completed with its score and rating, and an end-interview
\* for the other session, which has no response stored, has just failed and
\* left it 'in_progress'
C30_Witness ==
    /\ reply.op = "end_interview"
    /\ reply.outcome.status_code # 200
    /\ Len(tables.sessions) = 2
    /\ tables.sessions[1].status = "completed"
    /\ tables.sessions[1].overall_score # None
    /\ tables.sessions[1].overall_rating # None
    /\ tables.sessions[2].status = "in_progress"
    /\ reply.request.session_id = tables.sessions[2].session_id
    /\ ResponsesOf(tables, tables.sessions[2].session_id) = <<>>

=============================================================================
